---- MODULE Spec2Model ----
(***************************************************************************)
(* The resilient HTTP request pipeline of examples/python/utils/           *)
(* api_client.py: class APIClient with its circuit breaker, its retry loop *)
(* with exponential backoff, its rate-limit bookkeeping and its counters.  *)
(*                                                                         *)
(* One client object is shared by the logical calls (_make_request) that   *)
(* run on the event loop.  A coroutine runs without interruption between   *)
(* two awaits, so every action below is the code between two suspension    *)
(* points: the transport call, the read of an error body, a sleep.         *)
(***************************************************************************)
EXTENDS Integers, Sequences, FiniteSets, TLC

VARIABLES
    now,                                \* the clock (time.time / datetime.utcnow)
    env,                                \* what the surroundings of the client do
    max_retries,                        \* self.max_retries
    circuit_breaker_enabled,            \* self.circuit_breaker_enabled
    circuit_breaker_state,              \* self.circuit_breaker_state
    circuit_breaker_failure_count,      \* self.circuit_breaker_failure_count
    circuit_breaker_last_failure_time,  \* self.circuit_breaker_last_failure_time
    rate_limit_remaining,               \* self.rate_limit_remaining
    rate_limit_reset,                   \* self.rate_limit_reset
    rate_limit_requests,                \* self.rate_limit_requests
    request_count,                      \* self.request_count
    error_count,                        \* self.error_count
    last_request_time,                  \* self.last_request_time
    session,                            \* self.session is not None
    call,                               \* the logical calls: one record a slot
    started,                            \* calls begun and calls cancelled so far
    resets,                             \* reset_stats() invocations so far
    consecutive_failures,               \* logical calls that failed in a row
    stats,                              \* what get_stats() returned last, if kept
    pool,                               \* DatabaseManager: self.pool
    connected,                          \* DatabaseManager: self._connected
    connection_attempts,                \* DatabaseManager: self._connection_attempts
    connecting,                         \* the connect() calls: one record a task
    closing,                            \* the pool a disconnect() is closing
    borrow,                             \* the get_connection() uses: one record a user
    pools,                              \* pools asyncpg.create_pool has made so far
    closed                              \* the pools asyncpg has closed

vars == <<now, env, max_retries, circuit_breaker_enabled, circuit_breaker_state,
          circuit_breaker_failure_count, circuit_breaker_last_failure_time,
          rate_limit_remaining, rate_limit_reset, rate_limit_requests,
          request_count, error_count, last_request_time, session, call,
          started, resets, consecutive_failures, stats, pool, connected,
          connection_attempts, connecting, closing, borrow, pools, closed>>

client_vars == <<now, env, max_retries, circuit_breaker_enabled,
                 circuit_breaker_state, circuit_breaker_failure_count,
                 circuit_breaker_last_failure_time, rate_limit_remaining,
                 rate_limit_reset, rate_limit_requests, request_count,
                 error_count, last_request_time, session, call, started,
                 resets, consecutive_failures, stats>>

manager_vars == <<pool, connected, connection_attempts, connecting, closing,
                  borrow, pools, closed>>

breaker_vars == <<circuit_breaker_state, circuit_breaker_failure_count,
                  circuit_breaker_last_failure_time>>

rate_vars == <<rate_limit_remaining, rate_limit_reset, rate_limit_requests>>

config_vars == <<env, max_retries, circuit_breaker_enabled>>

budget_vars == <<started, resets>>

----------------------------------------------------------------------------
(* Bounds of the model. *)

MaxCalls == 3       \* logical calls begun or cancelled in one behaviour
MaxTicks == 4       \* clock advances in one behaviour
MaxRetries == 2     \* max_retries ranges over 0..MaxRetries
MaxResets == 1      \* reset_stats() invocations in one behaviour

Slots == {1, 2}     \* logical calls that can be in progress at once

(* Configuration of the client under check (keyword arguments of __init__). *)
circuit_breaker_threshold == 2
circuit_breaker_timeout == 2
retry_delay == 1
retry_backoff == 3
max_retry_delay == 2

(* Fixed by the code. *)
rate_limit_window == 60
default_retry_after == 60

None == -1          \* Python's None in a field that otherwise holds a number >= 0

----------------------------------------------------------------------------
(* Arithmetic. *)

Min(a, b) == IF a <= b THEN a ELSE b

RECURSIVE Pow(_, _)
Pow(b, e) == IF e = 0 THEN 1 ELSE b * Pow(b, e - 1)

----------------------------------------------------------------------------
(* Response headers: absent, an integer in text form, or other text. *)

Absent == [kind |-> "absent", value |-> 0]
Text == [kind |-> "text", value |-> 0]
Num(n) == [kind |-> "int", value |-> n]

(* int(h): the value of an integer header; ValueError on other text. *)
ParseInt(h) == [ok |-> h.kind = "int", value |-> h.value]

----------------------------------------------------------------------------
(* The circuit breaker. *)

(* The breaker's three fields as one value. *)
Breaker == [state |-> circuit_breaker_state,
            failure_count |-> circuit_breaker_failure_count,
            last_failure_time |-> circuit_breaker_last_failure_time]

(* _check_circuit_breaker with the comparison turned round: open becomes    *)
(* half-open before the timeout has passed instead of after it.             *)
CheckCircuitBreaker_TooEarly(cb, t) ==
    IF ~circuit_breaker_enabled
    THEN [raise |-> FALSE, state |-> cb.state]
    ELSE IF cb.state = "open"
         THEN IF cb.last_failure_time # None
                 /\ t - cb.last_failure_time < circuit_breaker_timeout
              THEN [raise |-> FALSE, state |-> "half-open"]
              ELSE [raise |-> TRUE, state |-> cb.state]
         ELSE [raise |-> FALSE, state |-> cb.state]

(* _check_circuit_breaker with >= for >: half-open as soon as the time      *)
(* since the last failure equals the timeout.                               *)
CheckCircuitBreaker_AtTimeout(cb, t) ==
    IF ~circuit_breaker_enabled
    THEN [raise |-> FALSE, state |-> cb.state]
    ELSE IF cb.state = "open"
         THEN IF cb.last_failure_time # None
                 /\ t - cb.last_failure_time >= circuit_breaker_timeout
              THEN [raise |-> FALSE, state |-> "half-open"]
              ELSE [raise |-> TRUE, state |-> cb.state]
         ELSE [raise |-> FALSE, state |-> cb.state]

(* _check_circuit_breaker never leaving the open state. *)
CheckCircuitBreaker_StaysOpen(cb, t) ==
    IF ~circuit_breaker_enabled
    THEN [raise |-> FALSE, state |-> cb.state]
    ELSE [raise |-> cb.state = "open", state |-> cb.state]

(* _check_circuit_breaker letting through only the call that finds the      *)
(* breaker open after its timeout: a call that finds it half-open is        *)
(* refused.                                                                 *)
CheckCircuitBreaker_OneProbe(cb, t) ==
    IF ~circuit_breaker_enabled
    THEN [raise |-> FALSE, state |-> cb.state]
    ELSE IF cb.state = "open"
         THEN IF cb.last_failure_time # None
                 /\ t - cb.last_failure_time > circuit_breaker_timeout
              THEN [raise |-> FALSE, state |-> "half-open"]
              ELSE [raise |-> TRUE, state |-> cb.state]
         ELSE [raise |-> cb.state = "half-open", state |-> cb.state]

(* _check_circuit_breaker at time t: whether it raises, and the state it    *)
(* leaves.  Open becomes half-open once more than the timeout has passed    *)
(* since the last failure; half-open and closed pass.                       *)
CheckCircuitBreaker(cb, t) ==
    IF ~circuit_breaker_enabled
    THEN [raise |-> FALSE, state |-> cb.state]
    ELSE IF cb.state = "open"
         THEN IF cb.last_failure_time # None
                 /\ t - cb.last_failure_time > circuit_breaker_timeout
              THEN [raise |-> FALSE, state |-> "half-open"]
              ELSE [raise |-> TRUE, state |-> cb.state]
         ELSE [raise |-> FALSE, state |-> cb.state]

(* _update_circuit_breaker opening only above the threshold (> for >=). *)
UpdateCircuitBreaker_AboveThreshold(cb, success, t) ==
    IF ~circuit_breaker_enabled
    THEN cb
    ELSE IF success
         THEN IF cb.state = "half-open"
              THEN [cb EXCEPT !.state = "closed", !.failure_count = 0]
              ELSE cb
         ELSE LET n == cb.failure_count + 1 IN
              [state |-> IF n > circuit_breaker_threshold /\ cb.state # "open"
                         THEN "open" ELSE cb.state,
               failure_count |-> n,
               last_failure_time |-> t]

(* _update_circuit_breaker closing on a half-open success without clearing  *)
(* the failure count.                                                       *)
UpdateCircuitBreaker_KeepsCount(cb, success, t) ==
    IF ~circuit_breaker_enabled
    THEN cb
    ELSE IF success
         THEN IF cb.state = "half-open"
              THEN [cb EXCEPT !.state = "closed"]
              ELSE cb
         ELSE LET n == cb.failure_count + 1 IN
              [state |-> IF n >= circuit_breaker_threshold /\ cb.state # "open"
                         THEN "open" ELSE cb.state,
               failure_count |-> n,
               last_failure_time |-> t]

(* _update_circuit_breaker opening from closed only ( == 'closed' for       *)
(* != 'open'): a failure in half-open leaves the breaker half-open.         *)
UpdateCircuitBreaker_FromClosedOnly(cb, success, t) ==
    IF ~circuit_breaker_enabled
    THEN cb
    ELSE IF success
         THEN IF cb.state = "half-open"
              THEN [cb EXCEPT !.state = "closed", !.failure_count = 0]
              ELSE cb
         ELSE LET n == cb.failure_count + 1 IN
              [state |-> IF n >= circuit_breaker_threshold /\ cb.state = "closed"
                         THEN "open" ELSE cb.state,
               failure_count |-> n,
               last_failure_time |-> t]

(* _update_circuit_breaker clearing the failure count on every success. *)
UpdateCircuitBreaker_SuccessClears(cb, success, t) ==
    IF ~circuit_breaker_enabled
    THEN cb
    ELSE IF success
         THEN [cb EXCEPT !.state = IF @ = "half-open" THEN "closed" ELSE @,
                         !.failure_count = 0]
         ELSE LET n == cb.failure_count + 1 IN
              [state |-> IF n >= circuit_breaker_threshold /\ cb.state # "open"
                         THEN "open" ELSE cb.state,
               failure_count |-> n,
               last_failure_time |-> t]

(* _update_circuit_breaker closing on every success, not only on one that   *)
(* is reported in half-open.                                                *)
UpdateCircuitBreaker_SuccessCloses(cb, success, t) ==
    IF ~circuit_breaker_enabled
    THEN cb
    ELSE IF success
         THEN [cb EXCEPT !.state = "closed", !.failure_count = 0]
         ELSE LET n == cb.failure_count + 1 IN
              [state |-> IF n >= circuit_breaker_threshold /\ cb.state # "open"
                         THEN "open" ELSE cb.state,
               failure_count |-> n,
               last_failure_time |-> t]

(* _update_circuit_breaker opening one failure before the threshold. *)
UpdateCircuitBreaker_OpensEarly(cb, success, t) ==
    IF ~circuit_breaker_enabled
    THEN cb
    ELSE IF success
         THEN IF cb.state = "half-open"
              THEN [cb EXCEPT !.state = "closed", !.failure_count = 0]
              ELSE cb
         ELSE LET n == cb.failure_count + 1 IN
              [state |-> IF n >= circuit_breaker_threshold - 1 /\ cb.state # "open"
                         THEN "open" ELSE cb.state,
               failure_count |-> n,
               last_failure_time |-> t]

(* _update_circuit_breaker without the test of the enabling flag. *)
UpdateCircuitBreaker_IgnoresFlag(cb, success, t) ==
    IF success
    THEN IF cb.state = "half-open"
         THEN [cb EXCEPT !.state = "closed", !.failure_count = 0]
         ELSE cb
    ELSE LET n == cb.failure_count + 1 IN
         [state |-> IF n >= circuit_breaker_threshold /\ cb.state # "open"
                    THEN "open" ELSE cb.state,
          failure_count |-> n,
          last_failure_time |-> t]

(* _update_circuit_breaker dropping the failures reported while open. *)
UpdateCircuitBreaker_DropsWhenOpen(cb, success, t) ==
    IF ~circuit_breaker_enabled
    THEN cb
    ELSE IF success
         THEN IF cb.state = "half-open"
              THEN [cb EXCEPT !.state = "closed", !.failure_count = 0]
              ELSE cb
         ELSE IF cb.state = "open"
         THEN cb
         ELSE LET n == cb.failure_count + 1 IN
              [state |-> IF n >= circuit_breaker_threshold /\ cb.state # "open"
                         THEN "open" ELSE cb.state,
               failure_count |-> n,
               last_failure_time |-> t]

(* _update_circuit_breaker(success) at time t: the breaker it leaves. *)
UpdateCircuitBreaker(cb, success, t) ==
    IF ~circuit_breaker_enabled
    THEN cb
    ELSE IF success
         THEN IF cb.state = "half-open"
              THEN [cb EXCEPT !.state = "closed", !.failure_count = 0]
              ELSE cb
         ELSE LET n == cb.failure_count + 1 IN
              [state |-> IF n >= circuit_breaker_threshold /\ cb.state # "open"
                         THEN "open" ELSE cb.state,
               failure_count |-> n,
               last_failure_time |-> t]

----------------------------------------------------------------------------
(* The rate limiter. *)

(* The limiter only pruning its window. *)
CheckRateLimit_NeverRaises(requests, remaining, reset, t) ==
    [requests |-> SelectSeq(requests, LAMBDA r : t - r < rate_limit_window),
     raise |-> FALSE]

(* The pruning with <= for <: a timestamp as old as the window is wide      *)
(* stays in the window.                                                     *)
CheckRateLimit_KeepsBoundary(requests, remaining, reset, t) ==
    [requests |-> SelectSeq(requests, LAMBDA r : t - r <= rate_limit_window),
     raise |-> /\ remaining # None
               /\ remaining <= 0
               /\ reset # None
               /\ reset # 0
               /\ t < reset]

(* The server-side check still withholding at the reset time itself. *)
CheckRateLimit_NonStrict(requests, remaining, reset, t) ==
    [requests |-> SelectSeq(requests, LAMBDA r : t - r < rate_limit_window),
     raise |-> /\ remaining # None
               /\ remaining <= 0
               /\ reset # None
               /\ reset # 0
               /\ t <= reset]

(* _check_rate_limit at time t: the pruned window (assigned before the      *)
(* server-side check) and whether APIRateLimitError is raised.              *)
CheckRateLimit(requests, remaining, reset, t) ==
    [requests |-> SelectSeq(requests, LAMBDA r : t - r < rate_limit_window),
     raise |-> /\ remaining # None
               /\ remaining <= 0
               /\ reset # None
               /\ reset # 0
               /\ t < reset]

(* The update taking a missing header for "unknown". *)
UpdateRateLimitInfo_ClearsAbsent(remaining, reset, h_remaining, h_reset) ==
    LET first_ok == h_remaining.kind = "absent" \/ ParseInt(h_remaining).ok IN
    [remaining |-> IF h_remaining.kind = "absent" THEN None
                   ELSE IF ParseInt(h_remaining).ok
                   THEN ParseInt(h_remaining).value ELSE remaining,
     reset |-> IF h_reset.kind = "absent" THEN None
               ELSE IF first_ok /\ ParseInt(h_reset).ok
               THEN ParseInt(h_reset).value ELSE reset]

(* _update_rate_limit_info(headers): remaining is parsed first; a header    *)
(* that is no integer raises ValueError, which ends the update there.       *)
UpdateRateLimitInfo(remaining, reset, h_remaining, h_reset) ==
    LET first_ok == h_remaining.kind = "absent" \/ ParseInt(h_remaining).ok IN
    [remaining |-> IF h_remaining.kind # "absent" /\ ParseInt(h_remaining).ok
                   THEN ParseInt(h_remaining).value ELSE remaining,
     reset |-> IF first_ok /\ h_reset.kind # "absent" /\ ParseInt(h_reset).ok
               THEN ParseInt(h_reset).value ELSE reset]

----------------------------------------------------------------------------
(* The retry policy of _make_request. *)

(* The retry test giving up one attempt early. *)
ShouldRetry_OneShort(attempt) == attempt + 1 < max_retries

(* The retry test allowing one attempt too many (<= for <). *)
ShouldRetry_OneMore(attempt) == attempt <= max_retries

(* The test "attempt < self.max_retries" of every retry branch. *)
ShouldRetry(attempt) == attempt < max_retries

(* The delay without its cap. *)
BackoffDelay_Uncapped(attempt) == retry_delay * Pow(retry_backoff, attempt)

(* min(retry_delay * retry_backoff ** attempt, max_retry_delay) *)
BackoffDelay(attempt) ==
    Min(retry_delay * Pow(retry_backoff, attempt), max_retry_delay)

(* The wait of a 429 with "0" for the default of headers.get: no wait when  *)
(* the header is absent or no integer.                                      *)
RetryAfterWait_ZeroDefault(h) ==
    IF h.kind = "int" THEN ParseInt(h).value ELSE 0

(* The wait of a 429 capped like a backoff delay. *)
RetryAfterWait_Capped(h) ==
    Min(IF h.kind = "int" THEN ParseInt(h).value ELSE default_retry_after,
        max_retry_delay)

(* The wait of a 429: int(Retry-After), 60 when absent or no integer. *)
RetryAfterWait(h) ==
    IF h.kind = "int" THEN ParseInt(h).value ELSE default_retry_after

(* How a status code is treated by the if/elif chain. *)
Classify(status) ==
    IF status = 429 THEN "rate"
    ELSE IF status = 401 THEN "auth"
    ELSE IF 400 <= status /\ status < 500 THEN "client"
    ELSE IF status >= 500 THEN "server"
    ELSE "ok"

----------------------------------------------------------------------------
(* Logical calls.  pc is the await a call is suspended at:                  *)
(*   "idle"     not begun                                                   *)
(*   "inflight" in session.request(...)                                     *)
(*   "reading"  in response.text() of an error response                     *)
(*   "sleeping" in asyncio.sleep(...) before the next attempt               *)
(*   "done"     returned (exc = "none") or raised (exc = the class)         *)
(* attempt is the loop variable; status the status of the response being    *)
(* handled; delay and wake the sleep asked for and its end; exc and msg the *)
(* exception raised and its status_code attribute; hdr the headers of the  *)
(* response; admitted the breaker state the admission check left;          *)
(* sent the transport calls issued; only the class of the outcomes so far; *)
(* errs and reports how often the call has counted an error and reported a *)
(* failure to the breaker.                                                  *)

NoHeaders == [retry_after |-> Absent, remaining |-> Absent, reset |-> Absent]

IdleCall == [pc |-> "idle", attempt |-> 0, status |-> 0, hdr |-> NoHeaders,
             delay |-> 0, wake |-> 0, exc |-> "none", msg |-> "none",
             status_code |-> None, admitted |-> "none",
             sent |-> 0, only |-> "none", errs |-> 0, reports |-> 0,
             probe |-> 0, failed |-> 0, health |-> "none"]

(* The paths health_check() probes, in the order of its loop.  A call of    *)
(* health_check has in probe the index of the path it requests (0 in a call *)
(* that is none), in failed the probes that ended in an API error, and in   *)
(* health what health_check returned.                                       *)
health_endpoints == <<"/health", "/ping", "/status", "/">>

(* APIError and its subclasses. *)
APIErrors == {"APIError", "APITimeoutError", "APIAuthenticationError",
              "APIRateLimitError"}

(* What the transport can answer to one attempt. *)
StatusCodes == {200, 401, 404, 429, 503}

Statuses == env.statuses

RetryAfterChoices(status) ==
    IF status = 429 THEN {Absent, Text, Num(3)} ELSE {Absent}

RemainingChoices ==
    IF env.rate_headers THEN {Absent, Text, Num(0), Num(1)} ELSE {Absent}

ResetChoices ==
    IF env.rate_headers THEN {Absent, Num(now + 2)} ELSE {Absent}

Answers ==
    {[kind |-> k, status |-> 0, retry_after |-> Absent,
      remaining |-> Absent, reset |-> Absent] : k \in {"timeout", "error"}}
    \cup UNION {
      {[kind |-> "response", status |-> st, retry_after |-> ra,
        remaining |-> rem, reset |-> rst] :
           ra \in RetryAfterChoices(st), rem \in RemainingChoices,
           rst \in ResetChoices} : st \in Statuses}

(* From the time env.recovers on, if there is one, the server answers every *)
(* attempt, and with a status below 400.                                    *)
Healthy == env.recovers # None /\ now >= env.recovers

Outcomes ==
    IF Healthy
    THEN {o \in Answers : o.kind = "response" /\ o.status < 400}
    ELSE Answers

(* What an outcome counts as among the attempts of a call. *)
OutcomeClass(o) == IF o.kind = "response" THEN Classify(o.status) ELSE o.kind

(* The one class all outcomes of a call so far belong to, "mixed" if none. *)
Only(so_far, class) ==
    IF so_far = "none" \/ so_far = class THEN class ELSE "mixed"

(* The slot a new logical call takes: the lowest one not in use. *)
Free(c) == call[c].pc \in {"idle", "done"}
FreeSlot(c) ==
    /\ c <= env.callers
    /\ Free(c)
    /\ \A d \in Slots : d < c => ~Free(d)

(* The tally of logical calls that failed in a row after an attempt. *)
AfterCall(before, after) ==
    IF after.pc # "done" \/ after.exc = "CancelledError" THEN consecutive_failures
    ELSE IF after.exc = "none" THEN 0
    ELSE IF after.sent > 0 THEN consecutive_failures + 1
    ELSE consecutive_failures

SetBreaker(cb) ==
    /\ circuit_breaker_state' = cb.state
    /\ circuit_breaker_failure_count' = cb.failure_count
    /\ circuit_breaker_last_failure_time' = cb.last_failure_time

----------------------------------------------------------------------------
Envs == [callers : Slots, calls : 1..MaxCalls, statuses : SUBSET StatusCodes,
         rate_headers : BOOLEAN, long_ticks : BOOLEAN,
         recovers : {None} \cup (0..MaxTicks), keeps_stats : BOOLEAN,
         probes : BOOLEAN, closes : BOOLEAN]

----------------------------------------------------------------------------
(* The connection pool wrapper of example_python/utils/database.py: class   *)
(* DatabaseManager.  It shares no state with the client; its coroutines are *)
(* cut at their awaits like the client's.                                   *)

max_connection_attempts == 3    \* self._max_connection_attempts

Tasks == {1, 2}     \* callers of connect() that can be in progress at once
Users == {1, 2}     \* users of get_connection() that can be in progress at once

(* A connect() call that has not begun: where it is, the pool creations it  *)
(* has attempted, and whether the manager was connected when it was called. *)
IdleConnect == [pc |-> "idle", tries |-> 0, early |-> FALSE]

(* A get_connection() use that has not begun: where it is, the pool its     *)
(* acquire was issued on, the connections acquired and the connections the  *)
(* pool took back, the pool release was called on, and the exception.       *)
IdleBorrow == [pc |-> "idle", from |-> None, acquired |-> 0, released |-> 0,
               to |-> None, exc |-> "none"]

(* A manager as __init__ leaves it. *)
Manager ==
    /\ pool = None
    /\ connected = FALSE
    /\ connection_attempts = 0
    /\ connecting = [t \in Tasks |-> IdleConnect]
    /\ closing = None
    /\ borrow = [u \in Users |-> IdleBorrow]
    /\ pools = 0
    /\ closed = {}

(* A client as __init__ leaves it, for every configuration and surrounding,  *)
(* beside a manager.                                                        *)
Clients ==
    /\ Manager
    /\ now = 0
    /\ env \in Envs
    /\ max_retries \in 0..MaxRetries
    /\ circuit_breaker_enabled \in BOOLEAN
    /\ circuit_breaker_state = "closed"
    /\ circuit_breaker_failure_count = 0
    /\ circuit_breaker_last_failure_time = None
    /\ rate_limit_remaining = None
    /\ rate_limit_reset = None
    /\ rate_limit_requests = <<>>
    /\ request_count = 0
    /\ error_count = 0
    /\ last_request_time = None
    /\ session = FALSE
    /\ call = [c \in Slots |-> IdleCall]
    /\ started = 0
    /\ resets = 0
    /\ consecutive_failures = 0
    /\ stats = <<>>

----------------------------------------------------------------------------
(* The except clauses with "self.error_count += 1" missing from the one for *)
(* asyncio.TimeoutError.                                                    *)
Handler_TimeoutUncounted(cl, cb, errors, is_timeout, t) ==
    IF ShouldRetry(cl.attempt)
    THEN [call |-> [cl EXCEPT !.pc = "sleeping",
                              !.delay = BackoffDelay(cl.attempt),
                              !.wake = t + BackoffDelay(cl.attempt)],
          cb |-> cb,
          error_count |-> errors]
    ELSE [call |-> [cl EXCEPT !.pc = "done",
                              !.exc = IF is_timeout THEN "APITimeoutError"
                                      ELSE "APIError",
                              !.msg = IF is_timeout THEN "timeout after retries"
                                      ELSE "failed after retries",
                              !.status_code = None,
                              !.errs = IF is_timeout THEN @ ELSE @ + 1,
                              !.reports = @ + 1],
          cb |-> UpdateCircuitBreaker(cb, FALSE, t),
          error_count |-> IF is_timeout THEN errors ELSE errors + 1]

(* The except clauses counting an error for every failed attempt, not only  *)
(* for the last.                                                            *)
Handler_CountsEachAttempt(cl, cb, errors, is_timeout, t) ==
    IF ShouldRetry(cl.attempt)
    THEN [call |-> [cl EXCEPT !.pc = "sleeping",
                              !.delay = BackoffDelay(cl.attempt),
                              !.wake = t + BackoffDelay(cl.attempt),
                              !.errs = @ + 1],
          cb |-> cb,
          error_count |-> errors + 1]
    ELSE [call |-> [cl EXCEPT !.pc = "done",
                              !.exc = IF is_timeout THEN "APITimeoutError"
                                      ELSE "APIError",
                              !.msg = IF is_timeout THEN "timeout after retries"
                                      ELSE "failed after retries",
                              !.status_code = None,
                              !.errs = @ + 1,
                              !.reports = @ + 1],
          cb |-> UpdateCircuitBreaker(cb, FALSE, t),
          error_count |-> errors + 1]

(* The except clauses of the retry loop (asyncio.TimeoutError, Exception)   *)
(* for an exception raised in attempt cl.attempt at time t: sleep and go on *)
(* when attempts are left, else count the error, report the failure to the  *)
(* breaker and raise.                                                       *)
Handler(cl, cb, errors, is_timeout, t) ==
    IF ShouldRetry(cl.attempt)
    THEN [call |-> [cl EXCEPT !.pc = "sleeping",
                              !.delay = BackoffDelay(cl.attempt),
                              !.wake = t + BackoffDelay(cl.attempt)],
          cb |-> cb,
          error_count |-> errors]
    ELSE [call |-> [cl EXCEPT !.pc = "done",
                              !.exc = IF is_timeout THEN "APITimeoutError"
                                      ELSE "APIError",
                              !.msg = IF is_timeout THEN "timeout after retries"
                                      ELSE "failed after retries",
                              !.status_code = None,
                              !.errs = @ + 1,
                              !.reports = @ + 1],
          cb |-> UpdateCircuitBreaker(cb, FALSE, t),
          error_count |-> errors + 1]

(* The attempt's bookkeeping before session.request: the timestamp goes     *)
(* into the window and the transport call is issued.                        *)
Dispatch(cl, attempt) ==
    [cl EXCEPT !.pc = "inflight", !.attempt = attempt, !.sent = @ + 1,
               !.status = 0, !.hdr = NoHeaders, !.delay = 0, !.wake = 0]

(* The admission with the timestamp of the first attempt recorded before    *)
(* the limiter is asked: a call the limiter rejects leaves it in the window. *)
Admit_RecordsBeforeCheck(cl, cb, requests, remaining, reset, t) ==
    LET adm == CheckCircuitBreaker(cb, t)
        rl == CheckRateLimit(requests, remaining, reset, t)
    IN IF adm.raise
       THEN [call |-> [cl EXCEPT !.pc = "done", !.exc = "APIError",
                                 !.msg = "circuit breaker is open",
                                 !.admitted = cb.state],
             cb |-> cb,
             requests |-> requests]
       ELSE IF rl.raise
       THEN [call |-> [cl EXCEPT !.pc = "done", !.exc = "APIRateLimitError",
                                 !.msg = "rate limit exceeded",
                                 !.admitted = adm.state],
             cb |-> [cb EXCEPT !.state = adm.state],
             requests |-> Append(rl.requests, t)]
       ELSE [call |-> Dispatch([cl EXCEPT !.admitted = adm.state], 0),
             cb |-> [cb EXCEPT !.state = adm.state],
             requests |-> Append(rl.requests, t)]

(* _make_request from its admission to its first await, for the new call   *)
(* cl at time t: the breaker and the rate limiter are asked once, and the   *)
(* first attempt is dispatched with its timestamp in the window.            *)
Admit(cl, cb, requests, remaining, reset, t) ==
    LET adm == CheckCircuitBreaker(cb, t)
        rl == CheckRateLimit(requests, remaining, reset, t)
    IN IF adm.raise
       THEN [call |-> [cl EXCEPT !.pc = "done", !.exc = "APIError",
                                 !.msg = "circuit breaker is open",
                                 !.admitted = cb.state],
             cb |-> cb,
             requests |-> requests]
       ELSE IF rl.raise
       THEN [call |-> [cl EXCEPT !.pc = "done", !.exc = "APIRateLimitError",
                                 !.msg = "rate limit exceeded",
                                 !.admitted = adm.state],
             cb |-> [cb EXCEPT !.state = adm.state],
             requests |-> rl.requests]
       ELSE [call |-> Dispatch([cl EXCEPT !.admitted = adm.state], 0),
             cb |-> [cb EXCEPT !.state = adm.state],
             requests |-> Append(rl.requests, t)]

(* health_check() giving up at the last path without its "return False":    *)
(* the API error of the last probe reaches the caller.                      *)
RECURSIVE HealthCheck_RaisesLast(_, _, _, _)
HealthCheck_RaisesLast(r, remaining, reset, t) ==
    IF r.call.probe = 0 \/ r.call.pc # "done" \/ r.call.health # "none"
    THEN r
    ELSE IF r.call.exc = "none"
    THEN [r EXCEPT !.call.health = "True"]
    ELSE IF r.call.exc = "CancelledError"
    THEN r
    ELSE IF r.call.exc \notin APIErrors
    THEN [r EXCEPT !.call.health = "False"]
    ELSE IF r.call.probe = Len(health_endpoints)
    THEN [r EXCEPT !.call.failed = @ + 1]
    ELSE HealthCheck_RaisesLast(
             Admit([IdleCall EXCEPT !.probe = r.call.probe + 1,
                                    !.failed = r.call.failed + 1],
                   r.cb, r.requests, remaining, reset, t),
             remaining, reset, t)

(* health_check() around the _make_request of its probe, which the step at  *)
(* time t has left as r.call: a response returns True; an API error goes on *)
(* to the next path, whose _make_request runs up to its first await in the  *)
(* same step, and returns False after the last; asyncio.CancelledError, no  *)
(* Exception, leaves health_check; any other exception returns False.       *)
RECURSIVE HealthCheck(_, _, _, _)
HealthCheck(r, remaining, reset, t) ==
    IF r.call.probe = 0 \/ r.call.pc # "done" \/ r.call.health # "none"
    THEN r
    ELSE IF r.call.exc = "none"
    THEN [r EXCEPT !.call.health = "True"]
    ELSE IF r.call.exc = "CancelledError"
    THEN r
    ELSE IF r.call.exc \notin APIErrors
    THEN [r EXCEPT !.call.health = "False"]
    ELSE IF r.call.probe = Len(health_endpoints)
    THEN [r EXCEPT !.call.failed = @ + 1, !.call.health = "False"]
    ELSE HealthCheck(
             Admit([IdleCall EXCEPT !.probe = r.call.probe + 1,
                                    !.failed = r.call.failed + 1],
                   r.cb, r.requests, remaining, reset, t),
             remaining, reset, t)

(* What a step leaves of slot c: r is what the step of _make_request has    *)
(* done, h what health_check(), where the call is one, has made of it, and  *)
(* has_session whether _make_request leaves a session; the _make_request of *)
(* a further probe has created one if there was none.                       *)
EndStep(c, r, h, has_session) ==
    /\ session' = (has_session \/ h.call.probe # r.call.probe)
    /\ call' = [call EXCEPT ![c] = h.call]
    /\ SetBreaker(h.cb)
    /\ rate_limit_requests' = h.requests
    /\ consecutive_failures' = AfterCall(call[c], r.call)

(* What the caller begins: a request, or health_check() with its first path. *)
ProbeChoices == IF env.probes THEN {1} ELSE {0}

(* A caller begins a logical call in slot c, which runs up to its first     *)
(* await: the session is created when there is none and _make_request is    *)
(* entered, from health_check() for a probe.                                *)
BeginCall(c) ==
    /\ FreeSlot(c)
    /\ started < env.calls
    /\ started' = started + 1
    /\ \E p \in ProbeChoices :
          LET r == Admit([IdleCall EXCEPT !.probe = p], Breaker,
                         rate_limit_requests, rate_limit_remaining,
                         rate_limit_reset, now)
          IN EndStep(c, r, HealthCheck(r, rate_limit_remaining,
                                       rate_limit_reset, now), TRUE)
    /\ UNCHANGED <<now, manager_vars, config_vars, stats, rate_limit_remaining,
                   rate_limit_reset, request_count, error_count,
                   last_request_time, resets>>

(* The body of "async with session.request(...) as response" for a response *)
(* o handled at time t, up to the next await, return or raise: the branch   *)
(* on the status code.  401 and an exhausted 429 raise inside the try, so   *)
(* the except clause for Exception handles them.                            *)
OnResponse(cl, cb, errors, o, t) ==
    LET class == Classify(o.status) IN
    IF class = "rate"
    THEN IF ShouldRetry(cl.attempt)
         THEN [call |-> [cl EXCEPT !.pc = "sleeping",
                                   !.delay = RetryAfterWait(o.retry_after),
                                   !.wake = t + RetryAfterWait(o.retry_after)],
               cb |-> cb, error_count |-> errors]
         ELSE Handler(cl, cb, errors, FALSE, t)
    ELSE IF class = "auth"
    THEN Handler(cl, cb, errors, FALSE, t)
    ELSE IF class = "client"
    THEN [call |-> [cl EXCEPT !.pc = "reading"], cb |-> cb, error_count |-> errors]
    ELSE IF class = "server"
    THEN IF ShouldRetry(cl.attempt)
         THEN [call |-> [cl EXCEPT !.pc = "sleeping",
                                   !.delay = BackoffDelay(cl.attempt),
                                   !.wake = t + BackoffDelay(cl.attempt)],
               cb |-> cb, error_count |-> errors]
         ELSE [call |-> [cl EXCEPT !.pc = "reading"], cb |-> cb,
               error_count |-> errors]
    ELSE [call |-> [cl EXCEPT !.pc = "done"],
          cb |-> UpdateCircuitBreaker(cb, TRUE, t),
          error_count |-> errors]

(* The transport call of slot c ends with outcome o: a response, whose      *)
(* metrics and rate-limit headers are taken before the status is looked at, *)
(* or asyncio.TimeoutError, or another exception.                           *)
Respond(c, o) ==
    /\ call[c].pc = "inflight"
    /\ LET cl == [call[c] EXCEPT !.status = o.status,
                                 !.hdr = [retry_after |-> o.retry_after,
                                          remaining |-> o.remaining,
                                          reset |-> o.reset],
                                 !.only = Only(@, OutcomeClass(o))]
           rl == UpdateRateLimitInfo(rate_limit_remaining, rate_limit_reset,
                                     o.remaining, o.reset)
           r == IF o.kind = "response"
                THEN OnResponse(cl, Breaker, error_count, o, now)
                ELSE Handler(cl, Breaker, error_count, o.kind = "timeout", now)
       IN /\ EndStep(c, r,
                     HealthCheck([call |-> r.call, cb |-> r.cb,
                                  requests |-> rate_limit_requests],
                                 IF o.kind = "response" THEN rl.remaining
                                 ELSE rate_limit_remaining,
                                 IF o.kind = "response" THEN rl.reset
                                 ELSE rate_limit_reset,
                                 now),
                     session)
          /\ error_count' = r.error_count
          /\ IF o.kind = "response"
             THEN /\ request_count' = request_count + 1
                  /\ last_request_time' = now
                  /\ rate_limit_remaining' = rl.remaining
                  /\ rate_limit_reset' = rl.reset
             ELSE UNCHANGED <<request_count, last_request_time,
                              rate_limit_remaining, rate_limit_reset>>
    /\ UNCHANGED <<now, manager_vars, config_vars, stats, budget_vars>>

(* response.text() of a 4xx, or of a 5xx on the last attempt, has returned: *)
(* the failure is reported to the breaker and APIError is raised inside the *)
(* try, so the except clause for Exception handles it.                      *)
ReadBody(c) ==
    /\ call[c].pc = "reading"
    /\ LET r == Handler([call[c] EXCEPT !.reports = @ + 1],
                        UpdateCircuitBreaker(Breaker, FALSE, now),
                        error_count, FALSE, now)
       IN /\ EndStep(c, r,
                     HealthCheck([call |-> r.call, cb |-> r.cb,
                                  requests |-> rate_limit_requests],
                                 rate_limit_remaining, rate_limit_reset, now),
                     session)
          /\ error_count' = r.error_count
    /\ UNCHANGED <<now, manager_vars, config_vars, stats, rate_limit_remaining,
                   rate_limit_reset, request_count,
                   last_request_time, budget_vars>>

(* The timestamp recorded once per logical call, before the loop: a retry   *)
(* adds none.                                                               *)
Wake_NoTimestamp(c) ==
    /\ call[c].pc = "sleeping"
    /\ now >= call[c].wake
    /\ call' = [call EXCEPT ![c] = Dispatch(call[c], call[c].attempt + 1)]
    /\ UNCHANGED <<now, manager_vars, config_vars, stats, breaker_vars, rate_vars,
                   request_count, error_count,
                   last_request_time, session, budget_vars,
                   consecutive_failures>>

(* The next attempt of the loop, begun at time t without asking the breaker *)
(* or the limiter: the transport call is issued on the session, and where   *)
(* there is none "self.session.request" raises AttributeError inside the    *)
(* try, which the except clause for Exception handles.                      *)
Retry(cl, cb, errors, has_session, t) ==
    IF has_session
    THEN [call |-> Dispatch(cl, cl.attempt + 1), cb |-> cb,
          error_count |-> errors]
    ELSE Handler([cl EXCEPT !.attempt = @ + 1, !.status = 0, !.hdr = NoHeaders,
                            !.delay = 0, !.wake = 0,
                            !.only = Only(@, "error")],
                 cb, errors, FALSE, t)

(* asyncio.sleep has returned: "continue" takes the loop to the next        *)
(* attempt, whose timestamp goes into the window.                           *)
Wake(c) ==
    /\ call[c].pc = "sleeping"
    /\ now >= call[c].wake
    /\ LET r == Retry(call[c], Breaker, error_count, session, now)
       IN /\ EndStep(c, r,
                     HealthCheck([call |-> r.call, cb |-> r.cb,
                                  requests |-> Append(rate_limit_requests, now)],
                                 rate_limit_remaining, rate_limit_reset, now),
                     session)
          /\ error_count' = r.error_count
    /\ UNCHANGED <<now, manager_vars, config_vars, stats, rate_limit_remaining,
                   rate_limit_reset, request_count,
                   last_request_time, budget_vars>>

(* asyncio.CancelledError caught like any exception (it derived from        *)
(* Exception before Python 3.8): the cancelled call sleeps and retries, or  *)
(* ends in APIError.                                                        *)
OnCancel_Caught(cl, cb, errors, t) == Handler(cl, cb, errors, FALSE, t)

(* asyncio.CancelledError raised at the await the call is suspended at: it  *)
(* is a BaseException, which neither except clause of the loop catches, so  *)
(* it leaves _make_request as it is.                                        *)
OnCancel(cl, cb, errors, t) ==
    [call |-> [cl EXCEPT !.pc = "done", !.exc = "CancelledError",
                         !.msg = "cancelled", !.status_code = None,
                         !.only = Only(@, "cancelled")],
     cb |-> cb,
     error_count |-> errors]

(* The task running the logical call of slot c is cancelled while the call  *)
(* is suspended in the transport call, the body read or a sleep.  A         *)
(* cancellation is charged to the budget of caller events, env.calls.       *)
Cancel(c) ==
    /\ call[c].pc \in {"inflight", "reading", "sleeping"}
    /\ started < env.calls
    /\ started' = started + 1
    /\ LET r == OnCancel(call[c], Breaker, error_count, now)
       IN /\ call' = [call EXCEPT ![c] = r.call]
          /\ SetBreaker(r.cb)
          /\ error_count' = r.error_count
    /\ consecutive_failures' = AfterCall(call[c], call'[c])
    /\ UNCHANGED <<now, manager_vars, config_vars, stats, rate_vars, request_count,
                   last_request_time, session, resets>>

(* reset_stats() without the line "self.circuit_breaker_state = 'closed'". *)
ResetStats_KeepsBreakerState ==
    /\ resets < MaxResets
    /\ resets' = resets + 1
    /\ request_count' = 0
    /\ error_count' = 0
    /\ last_request_time' = None
    /\ circuit_breaker_failure_count' = 0
    /\ circuit_breaker_last_failure_time' = None
    /\ consecutive_failures' = 0
    /\ UNCHANGED <<now, manager_vars, config_vars, stats, rate_vars, session, call, started,
                   circuit_breaker_state>>

(* reset_stats() forgetting the server's limit as well. *)
ResetStats_ClearsRateLimit ==
    /\ resets < MaxResets
    /\ resets' = resets + 1
    /\ request_count' = 0
    /\ error_count' = 0
    /\ last_request_time' = None
    /\ circuit_breaker_failure_count' = 0
    /\ circuit_breaker_last_failure_time' = None
    /\ circuit_breaker_state' = "closed"
    /\ consecutive_failures' = 0
    /\ rate_limit_remaining' = None
    /\ rate_limit_reset' = None
    /\ UNCHANGED <<now, manager_vars, config_vars, stats, rate_limit_requests, session, call,
                   started>>

(* reset_stats() without the line "self.request_count = 0". *)
ResetStats_KeepsRequests ==
    /\ resets < MaxResets
    /\ resets' = resets + 1
    /\ error_count' = 0
    /\ last_request_time' = None
    /\ circuit_breaker_failure_count' = 0
    /\ circuit_breaker_last_failure_time' = None
    /\ circuit_breaker_state' = "closed"
    /\ consecutive_failures' = 0
    /\ UNCHANGED <<now, manager_vars, config_vars, stats, rate_vars, session, call, started,
                   request_count>>

(* reset_stats() *)
ResetStats ==
    /\ resets < MaxResets
    /\ resets' = resets + 1
    /\ request_count' = 0
    /\ error_count' = 0
    /\ last_request_time' = None
    /\ circuit_breaker_failure_count' = 0
    /\ circuit_breaker_last_failure_time' = None
    /\ circuit_breaker_state' = "closed"
    /\ consecutive_failures' = 0
    /\ UNCHANGED <<now, manager_vars, config_vars, stats, rate_vars, session, call, started>>

(* The dictionary get_stats() returns.  error_rate, a quotient of floats in *)
(* the code, is the pair of its numerator and its denominator.              *)
Snapshot ==
    [request_count |-> request_count,
     error_count |-> error_count,
     error_rate |-> <<error_count, IF request_count >= 1 THEN request_count ELSE 1>>,
     last_request_time |-> last_request_time,
     circuit_breaker_state |-> circuit_breaker_state,
     circuit_breaker_failure_count |-> circuit_breaker_failure_count,
     rate_limit_remaining |-> rate_limit_remaining,
     rate_limit_reset |-> rate_limit_reset,
     session_active |-> session]

(* initialize(): a session is created when there is none. *)
Initialize ==
    /\ session' = TRUE
    /\ UNCHANGED <<now, manager_vars, config_vars, stats, breaker_vars, rate_vars,
                   request_count, error_count, last_request_time, call,
                   budget_vars, consecutive_failures>>

(* close(): the session, when there is one, is closed and forgotten; calls  *)
(* in progress are left as they are.  A caller of the surroundings closes a *)
(* session only where env.closes says so.                                   *)
Close ==
    /\ env.closes \/ ~session
    /\ session' = FALSE
    /\ UNCHANGED <<now, manager_vars, config_vars, stats, breaker_vars, rate_vars,
                   request_count, error_count, last_request_time, call,
                   budget_vars, consecutive_failures>>

(* get_stats(): the dictionary is built from the fields and returned; the   *)
(* caller keeps it or drops it.                                             *)
GetStats ==
    /\ stats' = IF env.keeps_stats THEN <<Snapshot>> ELSE stats
    /\ UNCHANGED <<now, manager_vars, config_vars, breaker_vars, rate_vars, request_count,
                   error_count, last_request_time, session, call, budget_vars,
                   consecutive_failures>>

(* Time passes, by one unit or, where the surroundings allow it, by the     *)
(* width of the rate window.  The code reads the clock only to compare it   *)
(* with a wake-up time, the breaker's last failure, the server's reset time *)
(* or the age of a window entry, so the clock is advanced by a unit only    *)
(* while one of the first three lies ahead, and by the width of the window  *)
(* only while an entry of the window has not reached that age.              *)
Waiting ==
    \/ \E c \in Slots : call[c].pc = "sleeping" /\ call[c].wake > now
    \/ /\ circuit_breaker_state = "open"
       /\ now - circuit_breaker_last_failure_time <= circuit_breaker_timeout
    \/ /\ rate_limit_remaining # None
       /\ rate_limit_remaining <= 0
       /\ rate_limit_reset > now

Ageing ==
    /\ env.long_ticks
    /\ \E i \in 1..Len(rate_limit_requests) :
          now - rate_limit_requests[i] < rate_limit_window

TickSteps == IF env.long_ticks THEN {1, rate_limit_window} ELSE {1}

TicksUsed == (now \div rate_limit_window) + (now % rate_limit_window)

Tick(d) ==
    /\ IF d = 1 THEN Waiting ELSE Ageing
    /\ TicksUsed < MaxTicks
    /\ now' = now + d
    /\ UNCHANGED <<manager_vars, config_vars, stats, breaker_vars, rate_vars, request_count,
                   error_count, last_request_time, session, call, budget_vars,
                   consecutive_failures>>

Next ==
    \/ \E c \in Slots : BeginCall(c)
    \/ \E c \in Slots : \E o \in Outcomes : Respond(c, o)
    \/ \E c \in Slots : ReadBody(c)
    \/ \E c \in Slots : Wake(c)
    \/ \E c \in Slots : Cancel(c)
    \/ ResetStats
    \/ GetStats
    \/ Initialize
    \/ Close
    \/ \E d \in TickSteps : Tick(d)

(* A client whose logical calls are issued one after the other, against a   *)
(* server that sends no rate-limit headers: the breaker, the retry loop and *)
(* the counters.                                                            *)
Init == Clients /\ env = [callers |-> 1, calls |-> MaxCalls, statuses |-> StatusCodes,
                         rate_headers |-> FALSE, long_ticks |-> FALSE,
                         recovers |-> None, keeps_stats |-> FALSE, probes |-> FALSE,
              closes |-> FALSE]

Spec == Init /\ [][Next]_vars

(* A client that retries at most once, against a server that answers 200   *)
(* or 503 and sends X-RateLimit-Remaining and X-RateLimit-Reset headers:    *)
(* the rate limiter.                                                        *)
InitRate ==
    /\ Clients
    /\ max_retries <= 1
    /\ env = [callers |-> 1, calls |-> MaxCalls - 1, statuses |-> {200, 503},
              rate_headers |-> TRUE, long_ticks |-> FALSE, recovers |-> None,
              keeps_stats |-> FALSE, probes |-> FALSE,
              closes |-> FALSE]

SpecRate == InitRate /\ [][Next]_vars

(* A client with the breaker enabled that retries at most once, with two    *)
(* logical calls in progress at a time, against a server that answers 503   *)
(* when it answers: what calls that overlap do to one another.              *)
InitPair ==
    /\ Clients
    /\ circuit_breaker_enabled
    /\ max_retries <= 1
    /\ env = [callers |-> 2, calls |-> MaxCalls, statuses |-> {503},
              rate_headers |-> FALSE, long_ticks |-> FALSE, recovers |-> None,
              keeps_stats |-> FALSE, probes |-> FALSE,
              closes |-> FALSE]

SpecPair == InitPair /\ [][Next]_vars

(* A client with the breaker enabled that retries at most once, against a   *)
(* server that fails at time 0 and answers 200 from time 1 on.  A call is   *)
(* begun whenever one may be, every transport call comes to its end, every  *)
(* coroutine that can go on does so, and time passes.                       *)
InitHeal ==
    /\ Clients
    /\ circuit_breaker_enabled
    /\ max_retries <= 1
    /\ env = [callers |-> 1, calls |-> MaxCalls, statuses |-> {200, 503},
              rate_headers |-> FALSE, long_ticks |-> FALSE, recovers |-> 1,
              keeps_stats |-> FALSE, probes |-> FALSE,
              closes |-> FALSE]

Fairness ==
    /\ WF_vars(\E c \in Slots : BeginCall(c))
    /\ WF_vars(\E c \in Slots : \E o \in Outcomes : Respond(c, o))
    /\ WF_vars(\E c \in Slots : ReadBody(c))
    /\ WF_vars(\E c \in Slots : Wake(c))
    /\ WF_vars(\E d \in TickSteps : Tick(d))

SpecHeal == InitHeal /\ [][Next]_vars /\ Fairness

(* A client that retries at most once, against a server that answers 200   *)
(* or 503, and a caller that keeps the dictionary get_stats() returned      *)
(* last: the statistics.                                                    *)
InitStats ==
    /\ Clients
    /\ max_retries <= 1
    /\ env = [callers |-> 1, calls |-> MaxCalls, statuses |-> {200, 503},
              rate_headers |-> FALSE, long_ticks |-> FALSE, recovers |-> None,
              keeps_stats |-> TRUE, probes |-> FALSE,
              closes |-> FALSE]

SpecStats == InitStats /\ [][Next]_vars

(* A client that retries at most once, against a server that answers 200   *)
(* or 503, and a caller that only runs health_check(): the probes.          *)
InitHealth ==
    /\ Clients
    /\ max_retries <= 1
    /\ env = [callers |-> 1, calls |-> MaxCalls - 1, statuses |-> {200, 503},
              rate_headers |-> FALSE, long_ticks |-> FALSE, recovers |-> None,
              keeps_stats |-> FALSE, probes |-> TRUE,
              closes |-> FALSE]

SpecHealth == InitHealth /\ [][Next]_vars

(* A client with the breaker enabled that retries twice, against a server   *)
(* that answers 200 or 404 until time 2 and 200 from then on and sends      *)
(* rate-limit headers, while the clock may jump by the width of the rate    *)
(* window: timestamps that grow old.                                        *)
InitWindow ==
    /\ Clients
    /\ circuit_breaker_enabled
    /\ max_retries = 2
    /\ env = [callers |-> 1, calls |-> MaxCalls - 1, statuses |-> {200, 404},
              rate_headers |-> TRUE, long_ticks |-> TRUE, recovers |-> 2,
              keeps_stats |-> FALSE, probes |-> FALSE,
              closes |-> FALSE]

SpecWindow == InitWindow /\ [][Next]_vars

(* A client that retries at most once, against a server that answers 200   *)
(* or 503, while a caller may close the session at any time: the session.   *)
InitSession ==
    /\ Clients
    /\ max_retries <= 1
    /\ env = [callers |-> 1, calls |-> MaxCalls - 1, statuses |-> {200, 503},
              rate_headers |-> FALSE, long_ticks |-> FALSE, recovers |-> None,
              keeps_stats |-> FALSE, probes |-> FALSE, closes |-> TRUE]

SpecSession == InitSession /\ [][Next]_vars

----------------------------------------------------------------------------
(* DatabaseManager. *)

(* is_connected(). *)
IsConnected == connected /\ pool # None

(* The head of the loop of connect(): another pool creation is attempted    *)
(* while the attempts counted on the manager are below the maximum, and     *)
(* connect() returns when the loop ends.                                    *)
ConnectLoop(cn, attempts) ==
    IF attempts < max_connection_attempts
    THEN [cn |-> [cn EXCEPT !.pc = "creating", !.tries = @ + 1],
          attempts |-> attempts + 1]
    ELSE [cn |-> [cn EXCEPT !.pc = "returned"], attempts |-> attempts]

(* The except clause of connect(): the last attempt raises, an earlier one  *)
(* sleeps before the loop goes on.                                          *)
ConnectFailed(cn, attempts) ==
    IF attempts >= max_connection_attempts
    THEN [cn EXCEPT !.pc = "raised"]
    ELSE [cn EXCEPT !.pc = "backoff"]

(* Task t calls connect(): up to the first await. *)
Connect(t) ==
    /\ connecting[t].pc \in {"idle", "returned", "raised"}
    /\ IF connected
       THEN /\ connecting' = [connecting EXCEPT ![t] =
                                  [pc |-> "returned", tries |-> 0, early |-> TRUE]]
            /\ UNCHANGED connection_attempts
       ELSE LET r == ConnectLoop(IdleConnect, connection_attempts)
            IN  /\ connecting' = [connecting EXCEPT ![t] = r.cn]
                /\ connection_attempts' = r.attempts
    /\ UNCHANGED <<client_vars, pool, connected, closing, borrow, pools, closed>>

(* asyncpg.create_pool returns a pool to task t, or raises: up to the await *)
(* of health_check, to the sleep, or to the raise of ConnectionPoolError.   *)
CreatePool(t, ok) ==
    /\ connecting[t].pc = "creating"
    /\ IF ok
       THEN /\ pools' = pools + 1
            /\ pool' = pools + 1
            /\ connected' = TRUE
            /\ connecting' = [connecting EXCEPT ![t].pc = "checking"]
       ELSE /\ connecting' = [connecting EXCEPT ![t] =
                                  ConnectFailed(@, connection_attempts)]
            /\ UNCHANGED <<pools, pool, connected>>
    /\ UNCHANGED <<client_vars, connection_attempts, closing, borrow, closed>>

(* health_check returns to task t (it raises nothing, and its result is not *)
(* looked at): connect() returns.                                           *)
HealthChecked(t) ==
    /\ connecting[t].pc = "checking"
    /\ connecting' = [connecting EXCEPT ![t].pc = "returned"]
    /\ UNCHANGED <<client_vars, pool, connected, connection_attempts, closing,
                   borrow, pools, closed>>

(* The sleep of task t is over: the loop of connect() goes on. *)
ConnectRetry(t) ==
    /\ connecting[t].pc = "backoff"
    /\ LET r == ConnectLoop(connecting[t], connection_attempts)
       IN  /\ connecting' = [connecting EXCEPT ![t] = r.cn]
           /\ connection_attempts' = r.attempts
    /\ UNCHANGED <<client_vars, pool, connected, closing, borrow, pools, closed>>

(* disconnect() is called: it returns at once on a manager that is not      *)
(* connected, and awaits pool.close() otherwise.                            *)
Disconnect ==
    /\ closing = None
    /\ closing' = IF ~connected \/ pool = None THEN None ELSE pool
    /\ UNCHANGED <<client_vars, pool, connected, connection_attempts, connecting,
                   borrow, pools, closed>>

(* pool.close() returns, which it does once every connection of the pool is *)
(* back, or raises, which disconnect() logs.                                *)
PoolClosed(ok) ==
    /\ closing # None
    /\ closing' = None
    /\ IF ok
       THEN /\ \A u \in Users : ~(borrow[u].pc = "body" /\ borrow[u].from = closing)
            /\ closed' = closed \cup {closing}
            /\ connected' = FALSE
       ELSE UNCHANGED <<closed, connected>>
    /\ UNCHANGED <<client_vars, pool, connection_attempts, connecting, borrow,
                   pools>>

(* User u enters get_connection(): it raises on a manager that is not       *)
(* connected, and awaits pool.acquire() otherwise.                          *)
GetConnection(u) ==
    /\ borrow[u].pc \in {"idle", "done", "raised"}
    /\ borrow' = [borrow EXCEPT ![u] =
                      IF ~connected \/ pool = None
                      THEN [IdleBorrow EXCEPT !.pc = "raised",
                                              !.exc = "ConnectionPoolError"]
                      ELSE [IdleBorrow EXCEPT !.pc = "acquiring", !.from = pool]]
    /\ UNCHANGED <<client_vars, pool, connected, connection_attempts, connecting,
                   closing, pools, closed>>

(* pool.acquire() returns a connection to user u, whose body begins, or     *)
(* raises, as it does on a closed pool: nothing is held then, and the       *)
(* exception leaves get_connection().                                       *)
Acquired(u, ok) ==
    /\ borrow[u].pc = "acquiring"
    /\ ok => borrow[u].from \notin closed
    /\ borrow' = [borrow EXCEPT ![u] =
                      IF ok
                      THEN [@ EXCEPT !.pc = "body", !.acquired = 1]
                      ELSE [@ EXCEPT !.pc = "raised", !.exc = "InterfaceError"]]
    /\ UNCHANGED <<client_vars, pool, connected, connection_attempts, connecting,
                   closing, pools, closed>>

(* The finally clause of get_connection(): pool.release(connection) on the  *)
(* pool the manager holds now, which takes back a connection of its own and *)
(* raises InterfaceError on one of another pool.                            *)
Release(b, p, raises) ==
    [b EXCEPT !.to = p,
              !.released = IF p = b.from THEN 1 ELSE 0,
              !.pc = IF raises \/ p # b.from THEN "raised" ELSE "done",
              !.exc = IF p # b.from THEN "InterfaceError"
                      ELSE IF raises THEN "Exception" ELSE "none"]

(* The body of user u ends, normally or with an exception. *)
Leave(u, raises) ==
    /\ borrow[u].pc = "body"
    /\ borrow' = [borrow EXCEPT ![u] = Release(@, pool, raises)]
    /\ UNCHANGED <<client_vars, pool, connected, connection_attempts, connecting,
                   closing, pools, closed>>

NextManager ==
    \/ \E t \in Tasks : Connect(t)
    \/ \E t \in Tasks : \E ok \in BOOLEAN : CreatePool(t, ok)
    \/ \E t \in Tasks : HealthChecked(t)
    \/ \E t \in Tasks : ConnectRetry(t)
    \/ Disconnect
    \/ \E ok \in BOOLEAN : PoolClosed(ok)
    \/ \E u \in Users : GetConnection(u)
    \/ \E u \in Users : \E ok \in BOOLEAN : Acquired(u, ok)
    \/ \E u \in Users : \E raises \in BOOLEAN : Leave(u, raises)

(* A manager and the callers of its connect(), disconnect() and             *)
(* get_connection(), beside a client that is not used.                      *)
InitManager == Init /\ max_retries = 0 /\ circuit_breaker_enabled

SpecManager == InitManager /\ [][NextManager]_vars

----------------------------------------------------------------------------
(* Steps of a behaviour, as the claims speak of them. *)

(* Slot c begins a logical call: its admission check runs in this step. *)
Begins(c) ==
    /\ FreeSlot(c)
    /\ started' = started + 1
    /\ \A d \in Slots \ {c} : call'[d] = call[d]

(* The transport call of slot c ends in a success, which is reported. *)
Succeeds(c) ==
    call[c].pc = "inflight" /\ call'[c].pc = "done" /\ call'[c].exc = "none"

(* The transport call of slot c is answered by a response. *)
Answered(c) ==
    /\ call[c].pc = "inflight"
    /\ call'[c].pc # "inflight"
    /\ request_count' = request_count + 1

(* A transport call is issued for slot c. *)
Dispatched(c) == call[c].pc # "inflight" /\ call'[c].pc = "inflight"

(* The task of the suspended call of slot c is cancelled. *)
Cancelled(c) ==
    /\ call[c].pc \in {"inflight", "reading", "sleeping"}
    /\ started' = started + 1
    /\ call'[c] # call[c]

(* The sum of f over the finite set S. *)
RECURSIVE Sum(_, _)
Sum(f, S) ==
    IF S = {} THEN 0
    ELSE LET x == CHOOSE y \in S : TRUE IN f[x] + Sum(f, S \ {x})

(* In this step: the failures the calls in progress report to the breaker,  *)
(* the responses they receive and the attempts they begin.                  *)
FailuresReported ==
    Sum([c \in Slots |-> IF call'[c].reports > call[c].reports
                         THEN call'[c].reports - call[c].reports ELSE 0], Slots)

ResponsesReceived ==
    Cardinality({c \in Slots : /\ call[c].pc = "inflight"
                               /\ call'[c].pc # "inflight"
                               /\ call'[c].status # 0})

AttemptsBegun == Cardinality({c \in Slots : Dispatched(c)})

(* The logical call of slot c ends in an error after an attempt. *)
Fails(c) ==
    /\ call[c].pc \in {"inflight", "reading"}
    /\ call'[c].pc = "done"
    /\ call'[c].exc \notin {"none", "CancelledError"}

(* Time since the breaker's last failure. *)
Elapsed == now - circuit_breaker_last_failure_time

----------------------------------------------------------------------------
(* C1: with the breaker enabled, when a logical call fails after at least   *)
(* one transport attempt and is thereby the N-th in a row to do so, with no *)
(* successful call and no reset_stats in between and                        *)
(* N >= circuit_breaker_threshold, the breaker is open when it has ended.   *)
C1_FailuresInARowOpen ==
    [][(/\ circuit_breaker_enabled
        /\ consecutive_failures' = consecutive_failures + 1
        /\ consecutive_failures' >= circuit_breaker_threshold)
       => circuit_breaker_state' = "open"]_vars

C1_Witness ==
    /\ circuit_breaker_enabled
    /\ consecutive_failures >= circuit_breaker_threshold
    /\ circuit_breaker_state = "open"
    /\ \E c \in Slots : call[c].pc = "done" /\ call[c].exc = "APITimeoutError"

(* C2: a logical call whose admission check runs while the breaker is open  *)
(* and less than the timeout has passed since the last failure ends at once *)
(* with the circuit-open error: no transport call, no attempt, no retry,    *)
(* and request_count, error_count, the failure count and the rate window    *)
(* stay as they were.                                                       *)
C2_OpenBreakerRejects ==
    [][\A c \in Slots :
         (/\ Begins(c)
          /\ circuit_breaker_enabled
          /\ circuit_breaker_state = "open"
          /\ Elapsed < circuit_breaker_timeout)
         => /\ call'[c].pc = "done"
            /\ call'[c].exc = "APIError"
            /\ call'[c].msg = "circuit breaker is open"
            /\ call'[c].sent = 0
            /\ call'[c].attempt = 0
            /\ UNCHANGED <<request_count, error_count, breaker_vars,
                           rate_limit_requests>>]_vars

C2_Witness ==
    /\ circuit_breaker_state = "open"
    /\ Elapsed < circuit_breaker_timeout
    /\ request_count > 0
    /\ Len(rate_limit_requests) > 0
    /\ \E c \in Slots : /\ call[c].pc = "done"
                        /\ call[c].msg = "circuit breaker is open"
                        /\ call[c].sent = 0

(* C3: a 401, or a 4xx other than 429, ends the logical call on that        *)
(* attempt: no sleep and no further attempt follow it.                      *)
C3_ClientErrorNotRetried ==
    \A c \in Slots :
        call[c].pc = "sleeping" => Classify(call[c].status) \notin {"auth", "client"}

(* C4: a logical call all of whose attempts were answered by a 5xx ends     *)
(* after exactly max_retries + 1 transport calls, in an error, having       *)
(* counted exactly one error; until its end it has counted none.            *)
C4_ServerErrorsExhaust ==
    \A c \in Slots :
        call[c].only = "server" =>
            IF call[c].pc = "done"
            THEN /\ call[c].sent = max_retries + 1
                 /\ call[c].exc # "none"
                 /\ call[c].errs = 1
            ELSE call[c].errs = 0

C4_Witness ==
    /\ max_retries = 2
    /\ \E c \in Slots : /\ call[c].pc = "done"
                        /\ call[c].only = "server"
                        /\ call[c].sent = 3
                        /\ call[c].errs = 1
                        /\ error_count = 1

(* C5: a logical call issues at most max_retries + 1 transport calls; it    *)
(* sleeps for a retry only while attempts are left, and once the outcome of *)
(* its last permitted attempt is handled it has ended, in an error if that  *)
(* outcome was a failure.                                                   *)
C5_AttemptsBounded ==
    \A c \in Slots :
        /\ call[c].sent <= max_retries + 1
        /\ call[c].pc = "sleeping" => call[c].attempt < max_retries
        /\ (call[c].sent = max_retries + 1 /\ call[c].pc \notin {"inflight", "reading"})
              => call[c].pc = "done"
        /\ (call[c].pc = "done" /\ call[c].sent > 0
              /\ (call[c].status >= 400 \/ call[c].only \in {"timeout", "error"}))
              => call[c].exc # "none"

C5_Witness ==
    /\ max_retries = 2
    /\ \E c \in Slots : /\ call[c].pc = "done"
                        /\ call[c].sent = 3
                        /\ call[c].only = "error"
                        /\ call[c].exc = "APIError"

(* C6: every transport attempt reports exactly one outcome to the breaker:  *)
(* with the breaker enabled, a call whose last outcome is handled has       *)
(* reported one failure for each of its failed attempts, none for a success.*)
C6_OneReportPerAttempt ==
    \A c \in Slots :
        (circuit_breaker_enabled /\ call[c].pc \in {"sleeping", "done"} /\ call[c].sent > 0)
        => call[c].reports = IF call[c].pc = "done" /\ call[c].exc = "none"
                             THEN call[c].sent - 1
                             ELSE call[c].sent

(* C7 as claimed: an admission check that runs while the breaker is open    *)
(* and the time since the last failure is at least the timeout, equality    *)
(* included, sets the breaker half-open and admits the call.                *)
C7_AtTimeoutAdmits ==
    [][\A c \in Slots :
         (/\ Begins(c)
          /\ circuit_breaker_enabled
          /\ circuit_breaker_state = "open"
          /\ Elapsed >= circuit_breaker_timeout)
         => /\ circuit_breaker_state' = "half-open"
            /\ call'[c].msg # "circuit breaker is open"]_vars

(* C7: an admission check that runs while the breaker is open and more than *)
(* the timeout has passed since the last failure sets the breaker half-open *)
(* and admits the call; at exactly the timeout it still rejects the call    *)
(* and leaves the breaker open; and the breaker becomes half-open in no     *)
(* other step than such an admission check.                                 *)
C7_PastTimeoutAdmits ==
    [][/\ \A c \in Slots :
            (Begins(c) /\ circuit_breaker_enabled /\ circuit_breaker_state = "open")
            => IF Elapsed > circuit_breaker_timeout
               THEN /\ circuit_breaker_state' = "half-open"
                    /\ call'[c].admitted = "half-open"
                    /\ call'[c].msg # "circuit breaker is open"
               ELSE /\ circuit_breaker_state' = "open"
                    /\ call'[c].msg = "circuit breaker is open"
       /\ (circuit_breaker_state # "half-open" /\ circuit_breaker_state' = "half-open")
            => /\ \E c \in Slots : Begins(c)
               /\ circuit_breaker_state = "open"
               /\ Elapsed > circuit_breaker_timeout]_vars

C7_Witness ==
    /\ circuit_breaker_state = "half-open"
    /\ Elapsed = circuit_breaker_timeout + 1
    /\ \E c \in Slots : /\ call[c].pc = "inflight"
                        /\ call[c].admitted = "half-open"

(* C8: a success reported while the breaker is half-open leaves it closed   *)
(* with failure count 0.                                                    *)
C8_HalfOpenSuccessCloses ==
    [][\A c \in Slots :
         (Succeeds(c) /\ circuit_breaker_enabled /\ circuit_breaker_state = "half-open")
         => /\ circuit_breaker_state' = "closed"
            /\ circuit_breaker_failure_count' = 0]_vars

C8_Witness ==
    /\ circuit_breaker_state = "closed"
    /\ circuit_breaker_failure_count = 0
    /\ resets = 0
    /\ \E c \in Slots : /\ call[c].pc = "done"
                        /\ call[c].exc = "none"
                        /\ call[c].admitted = "half-open"
                        /\ call[c].sent = 1

(* C9 as claimed: whenever a call admitted in half-open ends in failure,    *)
(* the breaker is open afterwards, with the last-failure time set to the    *)
(* time of the failure and a failure count that has not gone down.          *)
C9_ProbeFailureReopens ==
    [][\A c \in Slots :
         (Fails(c) /\ circuit_breaker_enabled /\ call[c].admitted = "half-open")
         => /\ circuit_breaker_state' = "open"
            /\ circuit_breaker_last_failure_time' = now
            /\ circuit_breaker_failure_count' >= circuit_breaker_failure_count]_vars

(* C9: a failure reported while the breaker is half-open leaves it open;    *)
(* and when a call admitted in half-open ends in failure while the breaker  *)
(* has not been closed in between (by reset_stats), the breaker is open     *)
(* afterwards; in both cases the last-failure time is the time of the       *)
(* failure and the failure count has grown.                                 *)
C9_HalfOpenFailureReopens ==
    [][/\ (/\ circuit_breaker_state = "half-open"
           /\ circuit_breaker_failure_count' > circuit_breaker_failure_count)
          => /\ circuit_breaker_state' = "open"
             /\ circuit_breaker_last_failure_time' = now
       /\ \A c \in Slots :
            (/\ Fails(c)
             /\ circuit_breaker_enabled
             /\ call[c].admitted = "half-open"
             /\ circuit_breaker_state # "closed")
            => /\ circuit_breaker_state' = "open"
               /\ circuit_breaker_last_failure_time' = now
               /\ circuit_breaker_failure_count' > circuit_breaker_failure_count]_vars

C9_Witness ==
    /\ circuit_breaker_state = "open"
    /\ circuit_breaker_last_failure_time = now
    /\ circuit_breaker_failure_count > circuit_breaker_threshold
    /\ resets = 0
    /\ \E c \in Slots : /\ call[c].pc = "done"
                        /\ call[c].exc = "APITimeoutError"
                        /\ call[c].admitted = "half-open"
                        /\ call[c].sent = 1

(* C10: a success reported while the breaker is closed leaves the breaker's *)
(* state, failure count and last-failure time as they were.                 *)
C10_ClosedSuccessKeepsBreaker ==
    [][\A c \in Slots :
         (Succeeds(c) /\ circuit_breaker_state = "closed")
         => UNCHANGED breaker_vars]_vars

C10_Witness ==
    /\ circuit_breaker_enabled
    /\ circuit_breaker_state = "closed"
    /\ circuit_breaker_failure_count > 0
    /\ circuit_breaker_last_failure_time # None
    /\ \E c \in Slots : call[c].pc = "done" /\ call[c].exc = "none"

(* C11: the error a logical call ends in after an attempt has the kind of   *)
(* the last attempt's outcome and keeps its status code: 401 an             *)
(* authentication error, another 4xx and a 5xx an APIError carrying the     *)
(* status, 429 a rate-limit error.                                          *)
C11_ErrorKeepsClassification ==
    \A c \in Slots :
        (/\ call[c].pc = "done"
         /\ call[c].sent > 0
         /\ call[c].exc \notin {"none", "CancelledError"}
         /\ call[c].status # 0)
        => CASE Classify(call[c].status) = "auth" ->
                    call[c].exc = "APIAuthenticationError"
             [] Classify(call[c].status) \in {"client", "server"} ->
                    call[c].exc = "APIError" /\ call[c].status_code = call[c].status
             [] Classify(call[c].status) = "rate" ->
                    call[c].exc = "APIRateLimitError"
             [] OTHER -> TRUE

(* C12: when every attempt of a logical call times out, each attempt before *)
(* the last is followed by a sleep that changes neither error_count nor the *)
(* breaker; the timeout of attempt max_retries ends the call, after         *)
(* max_retries + 1 transport calls, in APITimeoutError, with error_count    *)
(* and the breaker's failure count each one higher than before.             *)
C12_TimeoutsExhaust ==
    [][\A c \in Slots :
         (call[c].pc = "inflight" /\ call'[c] # call[c] /\ call'[c].only = "timeout")
         => IF call[c].attempt < max_retries
            THEN /\ call'[c].pc = "sleeping"
                 /\ UNCHANGED <<error_count, breaker_vars>>
            ELSE /\ call'[c].pc = "done"
                 /\ call'[c].exc = "APITimeoutError"
                 /\ call'[c].sent = max_retries + 1
                 /\ error_count' = error_count + 1
                 /\ IF circuit_breaker_enabled
                    THEN circuit_breaker_failure_count' = circuit_breaker_failure_count + 1
                    ELSE UNCHANGED breaker_vars]_vars

C12_Witness ==
    /\ max_retries = 2
    /\ circuit_breaker_enabled
    /\ circuit_breaker_failure_count = 1
    /\ error_count = 1
    /\ \E c \in Slots : /\ call[c].pc = "done"
                        /\ call[c].only = "timeout"
                        /\ call[c].sent = 3
                        /\ call[c].exc = "APITimeoutError"

(* C13: the sleep asked for after a 5xx, a timeout or a connection error on *)
(* attempt n < max_retries is min(retry_delay * retry_backoff^n,            *)
(* max_retry_delay): it never exceeds max_retry_delay and is no shorter     *)
(* than the sleep of any earlier attempt.                                   *)
C13_BackoffDelay ==
    \A c \in Slots :
        (/\ call[c].pc = "sleeping"
         /\ \/ Classify(call[c].status) = "server"
            \/ call[c].status = 0)
        => /\ call[c].attempt < max_retries
           /\ call[c].delay =
                  Min(retry_delay * Pow(retry_backoff, call[c].attempt), max_retry_delay)
           /\ call[c].delay <= max_retry_delay
           /\ \A n \in 0 .. call[c].attempt : BackoffDelay(n) <= call[c].delay

(* The second sleep of a call is the capped one: 1 * 3^1 > 2. *)
C13_Witness ==
    \E c \in Slots :
        /\ call[c].pc = "sleeping"
        /\ call[c].only \in {"server", "timeout", "error"}
        /\ call[c].attempt = 1
        /\ call[c].delay = max_retry_delay
        /\ call[c].delay > BackoffDelay(0)
        /\ retry_delay * Pow(retry_backoff, call[c].attempt) > max_retry_delay

(* C14: a 429 on an attempt that is not the last, with Retry-After: k, puts *)
(* the call to sleep for k, whatever the backoff delay and max_retry_delay  *)
(* are, and the next attempt is not dispatched before k has elapsed.        *)
C14_RetryAfterReplacesBackoff ==
    [][\A c \in Slots :
         /\ (/\ call[c].pc = "inflight"
             /\ call'[c].pc = "sleeping"
             /\ call'[c].status = 429
             /\ call'[c].hdr.retry_after.kind = "int")
            => /\ call'[c].delay = call'[c].hdr.retry_after.value
               /\ call'[c].wake = now + call'[c].hdr.retry_after.value
         /\ (/\ call[c].pc = "sleeping"
             /\ call[c].status = 429
             /\ call[c].hdr.retry_after.kind = "int"
             /\ call'[c].pc = "inflight")
            => /\ now >= call[c].wake
               /\ call'[c].attempt = call[c].attempt + 1]_vars

(* A call that has slept the 3 of its Retry-After, more than the backoff    *)
(* delay of its attempt and than max_retry_delay, and may go on now.        *)
C14_Witness ==
    \E c \in Slots :
        /\ call[c].pc = "sleeping"
        /\ call[c].status = 429
        /\ call[c].hdr.retry_after = Num(3)
        /\ call[c].delay = 3
        /\ call[c].delay > max_retry_delay
        /\ call[c].delay # BackoffDelay(call[c].attempt)
        /\ now = call[c].wake

(* C15: rate_limit_remaining changes only in the handling of a response     *)
(* that carries X-RateLimit-Remaining, rate_limit_reset only in that of one *)
(* that carries X-RateLimit-Reset, and an integer header is what the field  *)
(* becomes; a response with neither header leaves both fields as they were, *)
(* and a call begun while the recorded limit is exhausted and its reset is  *)
(* ahead is not dispatched.                                                 *)
C15_HeadersOverwriteOnlyWhenPresent ==
    [][/\ rate_limit_remaining' # rate_limit_remaining
          => \E c \in Slots : /\ Answered(c)
                              /\ call'[c].hdr.remaining.kind = "int"
                              /\ rate_limit_remaining' = call'[c].hdr.remaining.value
       /\ rate_limit_reset' # rate_limit_reset
          => \E c \in Slots : /\ Answered(c)
                              /\ call'[c].hdr.reset.kind = "int"
                              /\ rate_limit_reset' = call'[c].hdr.reset.value
       /\ \A c \in Slots :
            /\ (Answered(c) /\ call'[c].hdr.remaining.kind = "int")
               => rate_limit_remaining' = call'[c].hdr.remaining.value
            /\ (Answered(c) /\ call'[c].hdr.remaining.kind = "absent"
                            /\ call'[c].hdr.reset.kind = "absent")
               => UNCHANGED <<rate_limit_remaining, rate_limit_reset>>
            /\ (/\ Begins(c)
                /\ rate_limit_remaining = 0
                /\ rate_limit_reset # None
                /\ now < rate_limit_reset)
               => /\ call'[c].pc = "done"
                  /\ call'[c].sent = 0
                  /\ call'[c].exc # "none"]_vars

(* A response without either header has been handled while the limit an     *)
(* earlier response recorded is exhausted and its reset is still ahead.     *)
C15_Witness ==
    /\ rate_limit_remaining = 0
    /\ rate_limit_reset # None
    /\ now < rate_limit_reset
    /\ request_count >= 2
    /\ \E c \in Slots : /\ call[c].pc \in {"sleeping", "reading", "done"}
                        /\ call[c].status # 0
                        /\ call[c].hdr.remaining = Absent
                        /\ call[c].hdr.reset = Absent

(* C16: a call the breaker lets through is turned away by the rate limiter, *)
(* with APIRateLimitError and no transport call, exactly when               *)
(* rate_limit_remaining is known and <= 0 and rate_limit_reset is known and *)
(* later than now; in every other case its first attempt is dispatched, and *)
(* the number of timestamps in the window plays no part.                    *)
C16_WithheldExactlyWhenExhausted ==
    [][\A c \in Slots :
         (Begins(c) /\ ~CheckCircuitBreaker(Breaker, now).raise)
         => IF /\ rate_limit_remaining # None
               /\ rate_limit_remaining <= 0
               /\ rate_limit_reset # None
               /\ now < rate_limit_reset
            THEN /\ call'[c].pc = "done"
                 /\ call'[c].exc = "APIRateLimitError"
                 /\ call'[c].sent = 0
            ELSE /\ call'[c].pc = "inflight"
                 /\ call'[c].sent = 1
                 /\ call'[c].exc = "none"]_vars

(* A call dispatched at the reset time of an exhausted limit, with earlier  *)
(* timestamps in the window.                                                *)
C16_Witness ==
    /\ rate_limit_remaining = 0
    /\ rate_limit_reset = now
    /\ Len(rate_limit_requests) >= 2
    /\ \E c \in Slots : /\ call[c].pc = "inflight"
                        /\ call[c].attempt = 0
                        /\ call[c].sent = 1

C18_StopsAtFirstSuccess ==
    [][\A c \in Slots :
         /\ Succeeds(c)
            => /\ call'[c].status < 400
               /\ call'[c].attempt = call[c].attempt
               /\ call'[c].sent = call[c].attempt + 1
               /\ call'[c].errs = 0
               /\ error_count' = error_count
         /\ (call[c].pc = "done" /\ call[c].exc = "none")
            => \/ call'[c] = call[c]
               \/ Begins(c)]_vars

(* A call whose third attempt succeeded after two failed attempts. *)
C18_Witness ==
    /\ error_count = 0
    /\ \E c \in Slots : /\ call[c].pc = "done"
                        /\ call[c].exc = "none"
                        /\ call[c].status = 200
                        /\ call[c].attempt = 2
                        /\ call[c].sent = 3
                        /\ call[c].only = "mixed"

(* C19: every attempt, a retry included, passes the admission check before  *)
(* it is dispatched: no transport call is issued while the breaker is open  *)
(* and its timeout has not run out.                                         *)
C19_NoDispatchWhileOpen ==
    [][\A c \in Slots :
         Dispatched(c)
         => ~(/\ circuit_breaker_enabled
              /\ circuit_breaker_state' = "open"
              /\ now - circuit_breaker_last_failure_time' <= circuit_breaker_timeout)]_vars

(* C20: a call cancelled while it is suspended in the transport call, in    *)
(* the body read or in a sleep ends there in the cancellation error, not in *)
(* an API error: it issues no further transport call, counts no error and   *)
(* reports nothing to the breaker.                                          *)
C20_CancellationPropagates ==
    [][\A c \in Slots :
         /\ Cancelled(c)
            => /\ call'[c].pc = "done"
               /\ call'[c].exc = "CancelledError"
               /\ call'[c].sent = call[c].sent
               /\ call'[c].errs = call[c].errs
               /\ UNCHANGED <<error_count, request_count, breaker_vars, rate_vars>>
         /\ call[c].exc = "CancelledError"
            => \/ call'[c] = call[c]
               \/ Begins(c)]_vars

(* A call cancelled in the sleep after its first attempt, with later        *)
(* attempts still allowed.                                                  *)
C20_Witness ==
    /\ error_count = 0
    /\ \E c \in Slots : /\ call[c].pc = "done"
                        /\ call[c].exc = "CancelledError"
                        /\ call[c].delay > 0
                        /\ call[c].attempt = 0
                        /\ call[c].attempt < max_retries
                        /\ call[c].sent = 1

(* C21: with logical calls overlapping, no update of the shared state is    *)
(* lost.  In every step without reset_stats the failure count grows by the  *)
(* number of failures reported in it (a success in half-open, which reports *)
(* none, sets it to 0), request_count grows by the number of responses      *)
(* received in it, and the window gains one entry, the present time, for    *)
(* every attempt begun in it and loses none that is younger than the        *)
(* window's width.                                                          *)
C21_NoLostUpdate ==
    [][resets' = resets
       => /\ IF FailuresReported > 0 \/ ~(\E c \in Slots : Succeeds(c))
             THEN circuit_breaker_failure_count' =
                      circuit_breaker_failure_count + FailuresReported
             ELSE circuit_breaker_failure_count' \in {0, circuit_breaker_failure_count}
          /\ request_count' = request_count + ResponsesReceived
          /\ LET kept == SelectSeq(rate_limit_requests,
                                   LAMBDA r : now - r < rate_limit_window)
             IN IF AttemptsBegun = 0
                THEN rate_limit_requests' \in {rate_limit_requests, kept}
                ELSE /\ AttemptsBegun = 1
                     /\ rate_limit_requests' \in {Append(rate_limit_requests, now),
                                                  Append(kept, now)}]_vars

(* Two calls that overlapped have both ended in failures, the second after  *)
(* the first had opened the breaker.                                        *)
C21_Witness ==
    /\ resets = 0
    /\ \A c \in Slots : call[c].pc = "done" /\ call[c].sent >= 1 /\ call[c].reports >= 1
    /\ circuit_breaker_state = "open"
    /\ circuit_breaker_failure_count = call[1].reports + call[2].reports
    /\ circuit_breaker_failure_count > circuit_breaker_threshold
    /\ request_count >= 2
    /\ Len(rate_limit_requests) = call[1].sent + call[2].sent

C23_SelfHeals ==
    (/\ circuit_breaker_state = "open"
     /\ Elapsed > circuit_breaker_timeout
     /\ Healthy
     /\ started < env.calls)
    ~> (\/ circuit_breaker_state = "closed" /\ circuit_breaker_failure_count = 0
        \/ \E c \in Slots : call[c].exc = "CancelledError")

(* The breaker closed again by the success of a call it let through after   *)
(* its timeout.                                                             *)
C23_Witness ==
    /\ circuit_breaker_state = "closed"
    /\ circuit_breaker_failure_count = 0
    /\ circuit_breaker_last_failure_time # None
    /\ resets = 0
    /\ now > circuit_breaker_last_failure_time + circuit_breaker_timeout
    /\ \E c \in Slots : /\ call[c].pc = "done"
                        /\ call[c].exc = "none"
                        /\ call[c].admitted = "half-open"

(* C24: with the breaker disabled its state stays closed, its failure count *)
(* 0 and its last-failure time unset, whatever the calls report, and no     *)
(* call is refused for an open breaker.                                     *)
C24_DisabledBreakerIsInert ==
    ~circuit_breaker_enabled
    => /\ circuit_breaker_state = "closed"
       /\ circuit_breaker_failure_count = 0
       /\ circuit_breaker_last_failure_time = None
       /\ \A c \in Slots : call[c].msg # "circuit breaker is open"

(* A disabled breaker after more failed calls in a row than the threshold,  *)
(* with one more call let through.                                          *)
C24_Witness ==
    /\ ~circuit_breaker_enabled
    /\ consecutive_failures >= circuit_breaker_threshold
    /\ error_count >= circuit_breaker_threshold
    /\ \E c \in Slots : call[c].pc = "inflight"

----------------------------------------------------------------------------
(* C27: request_count and error_count never decrease, except that a         *)
(* reset_stats step sets both to 0.                                         *)
C27_CountersGrowUntilReset ==
    [][IF resets' = resets + 1
       THEN request_count' = 0 /\ error_count' = 0
       ELSE request_count' >= request_count /\ error_count' >= error_count]_vars

(* reset_stats has run after a call that was answered and counted an error, *)
(* and both counters are 0.                                                 *)
C27_Witness ==
    /\ resets = 1
    /\ request_count = 0
    /\ error_count = 0
    /\ \E c \in Slots : /\ call[c].pc = "done"
                        /\ call[c].status # 0
                        /\ call[c].errs >= 1

C29_BreakerTransitions ==
    [][/\ circuit_breaker_state' # circuit_breaker_state
          => \/ /\ resets' = resets + 1
                /\ circuit_breaker_state' = "closed"
             \/ /\ circuit_breaker_state = "closed"
                /\ circuit_breaker_state' = "open"
                /\ FailuresReported >= 1
                /\ circuit_breaker_failure_count' >= circuit_breaker_threshold
             \/ /\ circuit_breaker_state = "open"
                /\ circuit_breaker_state' = "half-open"
                /\ \E c \in Slots : Begins(c)
                /\ now - circuit_breaker_last_failure_time > circuit_breaker_timeout
             \/ /\ circuit_breaker_state = "half-open"
                /\ circuit_breaker_state' = "closed"
                /\ \E c \in Slots : Succeeds(c)
             \/ /\ circuit_breaker_state = "half-open"
                /\ circuit_breaker_state' = "open"
                /\ FailuresReported >= 1
       /\ (circuit_breaker_state = "open" /\ \E c \in Slots : Succeeds(c))
          => circuit_breaker_state' = "open"]_vars

(* The breaker is open after a call that was admitted while it was closed,  *)
(* reported the two failures that opened it and then ended in a success.    *)
C29_Witness ==
    /\ circuit_breaker_state = "open"
    /\ resets = 0
    /\ \E c \in Slots : /\ call[c].pc = "done"
                        /\ call[c].exc = "none"
                        /\ call[c].admitted = "closed"
                        /\ call[c].reports = circuit_breaker_threshold

(* C30: a step that issues a transport call appends the current time to the *)
(* rate window, once, and counts one attempt for the call; a step in which  *)
(* a transport call ends, whatever its outcome, and any other step that     *)
(* issues none appends nothing; so while nothing is old enough to be pruned *)
(* the window of a client's first logical call has one entry per attempt.   *)
C30_OneTimestampPerAttempt ==
    [][LET kept == SelectSeq(rate_limit_requests,
                             LAMBDA r : now - r < rate_limit_window)
       IN /\ \A c \in Slots :
                Dispatched(c)
                => /\ rate_limit_requests' \in {Append(rate_limit_requests, now),
                                                Append(kept, now)}
                   /\ call'[c].sent = IF call[c].pc = "sleeping"
                                      THEN call[c].sent + 1 ELSE 1
          /\ (\A c \in Slots : ~Dispatched(c))
             => rate_limit_requests' \in {rate_limit_requests, kept}
          /\ (\E c \in Slots : call[c].pc = "inflight" /\ call'[c].pc # "inflight")
             => rate_limit_requests' = rate_limit_requests
          /\ (started' = 1 /\ now' < rate_limit_window)
             => Len(rate_limit_requests') = call'[1].sent]_vars

(* The first logical call has ended after three attempts whose outcomes     *)
(* were not all of one kind, and the window has three entries.              *)
C30_Witness ==
    /\ started = 1
    /\ call[1].pc = "done"
    /\ call[1].only = "mixed"
    /\ call[1].sent = 3
    /\ Len(rate_limit_requests) = 3
    /\ \A i \in 1..3 : rate_limit_requests[i] <= now

(* C26: a reset_stats step, whatever the breaker state it is taken in, sets *)
(* request_count and error_count to 0, last_request_time to None and the    *)
(* breaker to closed with failure count 0 and no last failure time, all in  *)
(* the one step, and leaves the rate limiter, the session and the calls in  *)
(* progress alone; a get_stats step changes no field of the client, and the *)
(* dictionary it returns holds the values the fields have.                  *)
C26_ResetAndSnapshot ==
    [][/\ resets' = resets + 1
          => /\ request_count' = 0
             /\ error_count' = 0
             /\ last_request_time' = None
             /\ circuit_breaker_state' = "closed"
             /\ circuit_breaker_failure_count' = 0
             /\ circuit_breaker_last_failure_time' = None
             /\ UNCHANGED <<now, config_vars, rate_vars, session, call, stats>>
       /\ stats' # stats
          => /\ Len(stats') = 1
             /\ stats'[1].request_count = request_count
             /\ stats'[1].error_count = error_count
             /\ stats'[1].error_rate[1] = error_count
             /\ stats'[1].error_rate[2] \in {request_count, 1}
             /\ stats'[1].error_rate[2] >= request_count
             /\ stats'[1].last_request_time = last_request_time
             /\ stats'[1].circuit_breaker_state = circuit_breaker_state
             /\ stats'[1].circuit_breaker_failure_count =
                    circuit_breaker_failure_count
             /\ stats'[1].rate_limit_remaining = rate_limit_remaining
             /\ stats'[1].rate_limit_reset = rate_limit_reset
             /\ stats'[1].session_active = session
             /\ UNCHANGED <<now, config_vars, breaker_vars, rate_vars,
                            request_count, error_count, last_request_time,
                            session, call, budget_vars>>]_vars

(* reset_stats has run while a call was in progress, after a get_stats that *)
(* found the breaker half-open with requests and errors counted.            *)
C26_Witness ==
    /\ resets = 1
    /\ Len(stats) = 1
    /\ stats[1].circuit_breaker_state = "half-open"
    /\ stats[1].circuit_breaker_failure_count >= circuit_breaker_threshold
    /\ stats[1].request_count >= 1
    /\ stats[1].error_count >= 1
    /\ stats[1].last_request_time # None
    /\ request_count = 0
    /\ error_count = 0
    /\ last_request_time = None
    /\ circuit_breaker_state = "closed"
    /\ circuit_breaker_failure_count = 0
    /\ circuit_breaker_last_failure_time = None
    /\ \E c \in Slots : call[c].pc = "inflight" /\ call[c].admitted = "half-open"

(* C25: health_check() requests its paths in the order /health, /ping,      *)
(* /status, /, each after the probes of all paths before it have ended in   *)
(* an API error; it returns True at the first probe that is answered by a   *)
(* response below 400 and False when the probes of all four paths have      *)
(* failed; once it has returned it issues no probe; and the only exception  *)
(* it lets through to its caller is the cancellation of its task, never an  *)
(* API error.                                                               *)
C25_HealthCheckProbesInOrder ==
    [][\A c \in Slots :
         /\ call'[c].probe >= 1
            => /\ call'[c].probe \in 1..Len(health_endpoints)
               /\ call'[c].health = "True"
                  => /\ call'[c].pc = "done"
                     /\ call'[c].exc = "none"
                     /\ call'[c].status \in 100..399
                     /\ call'[c].failed = call'[c].probe - 1
               /\ call'[c].health = "False"
                  => /\ call'[c].pc = "done"
                     /\ call'[c].probe = Len(health_endpoints)
                     /\ call'[c].failed = Len(health_endpoints)
               /\ call'[c].health = "none"
                  => /\ call'[c].failed = call'[c].probe - 1
                     /\ call'[c].pc = "done" => call'[c].exc = "CancelledError"
         /\ (call[c].probe >= 1 /\ ~Begins(c))
            => /\ call'[c].probe >= call[c].probe
               /\ call'[c].probe > call[c].probe
                  => /\ call[c].pc \in {"inflight", "reading"}
                     /\ call'[c].failed > call[c].failed
               /\ call[c].health # "none" => call'[c] = call[c]]_vars

(* health_check() has returned False with the breaker disabled: the probes  *)
(* of all four paths were sent, answered and counted as errors.             *)
C25_Witness ==
    /\ ~circuit_breaker_enabled
    /\ resets = 0
    /\ request_count >= Len(health_endpoints)
    /\ error_count = Len(health_endpoints)
    /\ \E c \in Slots : /\ call[c].health = "False"
                        /\ call[c].probe = Len(health_endpoints)
                        /\ call[c].failed = Len(health_endpoints)
                        /\ call[c].sent >= 1
                        /\ call[c].exc \in APIErrors

----------------------------------------------------------------------------
(* C32: whenever the breaker is open or half-open, the failure count is at  *)
(* least circuit_breaker_threshold and the time of the last failure is set. *)
C32_OpenMeansThresholdReached ==
    circuit_breaker_state \in {"open", "half-open"}
    => /\ circuit_breaker_failure_count >= circuit_breaker_threshold
       /\ circuit_breaker_last_failure_time # None

(* The breaker is half-open with a call admitted in flight, after a         *)
(* reset_stats that had closed it and failures that opened it again.        *)
C32_Witness ==
    /\ circuit_breaker_state = "half-open"
    /\ resets = 1
    /\ circuit_breaker_failure_count >= circuit_breaker_threshold
    /\ circuit_breaker_last_failure_time # None
    /\ request_count < circuit_breaker_failure_count
    /\ \E c \in Slots : call[c].pc = "inflight" /\ call[c].admitted = "half-open"

(* C33: in every step but reset_stats, error_count grows by one for each    *)
(* logical call that ends in an API error in that step after a transport    *)
(* attempt, and by nothing else: not in a step in which a call succeeds, is *)
(* rejected at admission by the breaker or the rate limiter, sleeps before  *)
(* a retry or is cancelled; so no call counts more than once.               *)
C33_OneErrorPerFailedCall ==
    [][resets' = resets
       => /\ error_count' =
                 error_count + Cardinality({c \in Slots :
                                   /\ call[c].pc \in {"inflight", "reading"}
                                   /\ call'[c].pc = "done"
                                   /\ call'[c].exc \in APIErrors
                                   /\ call'[c].sent >= 1})
          /\ \A c \in Slots :
                /\ (Begins(c) /\ call'[c].pc = "done")
                   => call'[c].sent = 0 /\ error_count' = error_count
                /\ Succeeds(c) => error_count' = error_count
                /\ (call'[c] # call[c] /\ call'[c].pc # "done")
                   => error_count' = error_count
                /\ Cancelled(c) => error_count' = error_count]_vars

(* The first logical call has failed after three attempts whose outcomes    *)
(* were not all of one kind, and error_count is 1.                          *)
C33_Witness ==
    /\ started = 1
    /\ resets = 0
    /\ error_count = 1
    /\ call[1].pc = "done"
    /\ call[1].exc \in APIErrors
    /\ call[1].sent = 3
    /\ call[1].only = "mixed"

(* C31: in a step that begins a call which the breaker lets through, so     *)
(* that the rate limiter is asked, whether the limiter lets it through or   *)
(* not: what is left of the window is the timestamps less than 60 old, all  *)
(* of them and in the order they had, and the only entry added is the       *)
(* timestamp of the attempt that is dispatched.                             *)
C31_WindowPrunedAtAdmission ==
    [][\A c \in Slots :
         (Begins(c) /\ call'[c].msg # "circuit breaker is open")
         => LET left == IF call'[c].pc = "inflight"
                        THEN SubSeq(rate_limit_requests', 1,
                                    Len(rate_limit_requests') - 1)
                        ELSE rate_limit_requests'
            IN /\ \A i \in 1..Len(rate_limit_requests') :
                     now - rate_limit_requests'[i] < rate_limit_window
               /\ left = SelectSeq(rate_limit_requests,
                                   LAMBDA r : now - r < rate_limit_window)
               /\ call'[c].pc = "inflight"
                  => rate_limit_requests'[Len(rate_limit_requests')] = now]_vars

(* The second call has been let through after the first had been answered  *)
(* three times: of the three timestamps of the first call the window holds  *)
(* one, before the timestamp of the second.                                 *)
C31_Witness ==
    /\ started = 2
    /\ resets = 0
    /\ request_count = 3
    /\ now >= rate_limit_window
    /\ Len(rate_limit_requests) = 2
    /\ rate_limit_requests[1] > 0
    /\ rate_limit_requests[2] = now
    /\ \E c \in Slots : call[c].pc = "inflight" /\ call[c].attempt = 0

(* C36: every attempt a logical call begins is a transport call issued on a *)
(* session: a call that begins leaves a session behind, and a call that     *)
(* goes on after its backoff, whether or not close() has run in between,    *)
(* issues its transport call with a session in place.                       *)
C36_AttemptsOnSession ==
    [][\A c \in Slots :
         /\ Begins(c) => session'
         /\ Dispatched(c) => session'
         /\ (call[c].pc = "sleeping" /\ call'[c].attempt = call[c].attempt + 1)
            => /\ session'
               /\ call'[c].pc = "inflight"
               /\ call'[c].sent = call[c].sent + 1]_vars

(* C34 as the specification states it: a call the rate limiter rejects at   *)
(* admission issues no transport call and changes nothing of the client but *)
(* the breaker state, which its circuit check may have taken from open to   *)
(* half-open: the window, the counters, the failure count and the time of   *)
(* the last failure are as they were.                                       *)
C34_RejectionChangesNothing ==
    [][\A c \in Slots :
         (Begins(c) /\ call'[c].exc = "APIRateLimitError")
         => /\ call'[c].pc = "done"
            /\ call'[c].sent = 0
            /\ UNCHANGED <<rate_limit_requests, rate_limit_remaining,
                           rate_limit_reset, request_count, error_count,
                           last_request_time, circuit_breaker_failure_count,
                           circuit_breaker_last_failure_time>>
            /\ \/ circuit_breaker_state' = circuit_breaker_state
               \/ /\ circuit_breaker_state = "open"
                  /\ circuit_breaker_state' = "half-open"]_vars

(* C34: a call the rate limiter rejects at admission issues no transport    *)
(* call and adds no timestamp to the window, from which the timestamps 60   *)
(* or more old are removed; the counters, the server's limit, the failure   *)
(* count and the time of the last failure are as they were, a session is in *)
(* place, and the breaker state is as it was or has gone from open to       *)
(* half-open.                                                               *)
C34_RejectionOnlyPrunes ==
    [][\A c \in Slots :
         (Begins(c) /\ call'[c].exc = "APIRateLimitError")
         => /\ call'[c].pc = "done"
            /\ call'[c].sent = 0
            /\ rate_limit_requests' =
                   SelectSeq(rate_limit_requests,
                             LAMBDA r : now - r < rate_limit_window)
            /\ UNCHANGED <<now, rate_limit_remaining, rate_limit_reset,
                           request_count, error_count, last_request_time,
                           circuit_breaker_failure_count,
                           circuit_breaker_last_failure_time>>
            /\ session'
            /\ \/ circuit_breaker_state' = circuit_breaker_state
               \/ /\ circuit_breaker_state = "open"
                  /\ circuit_breaker_state' = "half-open"]_vars

(* The second call has been rejected by the limiter after its circuit check *)
(* had made the open breaker half-open, and the three timestamps of the     *)
(* first call, grown old, are gone from the window.                         *)
C34_Witness ==
    /\ started = 2
    /\ resets = 0
    /\ request_count = 3
    /\ circuit_breaker_state = "half-open"
    /\ rate_limit_requests = <<>>
    /\ rate_limit_remaining = 0
    /\ now < rate_limit_reset
    /\ \E c \in Slots : /\ call[c].pc = "done"
                        /\ call[c].exc = "APIRateLimitError"
                        /\ call[c].admitted = "half-open"
                        /\ call[c].sent = 0

(* C35: a reset_stats step leaves rate_limit_remaining, rate_limit_reset,   *)
(* the window and the session as they are; and a call begun while the       *)
(* breaker is closed, as reset_stats leaves it, and the server's limit is   *)
(* exhausted with its reset time ahead is rejected by the limiter.          *)
C35_ResetKeepsRateLimit ==
    [][/\ resets' = resets + 1
          => UNCHANGED <<rate_limit_remaining, rate_limit_reset,
                         rate_limit_requests, session>>
       /\ \A c \in Slots :
            (/\ Begins(c)
             /\ resets >= 1
             /\ circuit_breaker_state = "closed"
             /\ rate_limit_remaining # None
             /\ rate_limit_remaining <= 0
             /\ rate_limit_reset # None
             /\ now < rate_limit_reset)
            => /\ call'[c].pc = "done"
               /\ call'[c].exc = "APIRateLimitError"
               /\ call'[c].sent = 0]_vars

(* A call has been rejected by the limiter after reset_stats: the counters  *)
(* are 0 and the limit recorded before the reset is still in force.         *)
C35_Witness ==
    /\ resets = 1
    /\ request_count = 0
    /\ error_count = 0
    /\ last_request_time = None
    /\ session
    /\ rate_limit_remaining = 0
    /\ now < rate_limit_reset
    /\ Len(rate_limit_requests) >= 1
    /\ \E c \in Slots : /\ call[c].pc = "done"
                        /\ call[c].exc = "APIRateLimitError"
                        /\ call[c].sent = 0

----------------------------------------------------------------------------
(* Task t's connect() call, made on a manager that was not connected, ends  *)
(* in this step.                                                            *)
ConnectEnds(t) ==
    /\ connecting[t].pc \notin {"returned", "raised"} \/ Connect(t)
    /\ connecting'[t].pc \in {"returned", "raised"}
    /\ ~connecting'[t].early

(* C37: a connect() call on a manager that is not connected, made by the    *)
(* only caller of connect() before any disconnect() has closed a pool,      *)
(* either returns with the manager connected (is_connected() true) or       *)
(* raises ConnectionPoolError after one to three pool creation attempts; it *)
(* does not return normally with the manager left disconnected.             *)
C37_ConnectReturnsConnected ==
    [][\A t \in Tasks :
          (/\ ConnectEnds(t)
           /\ \A s \in Tasks \ {t} : connecting[s].pc = "idle"
           /\ closing = None /\ closed = {})
          => /\ connecting'[t].pc = "returned" => IsConnected'
             /\ connecting'[t].pc = "raised"
                => connecting'[t].tries \in 1..max_connection_attempts]_vars

(* C38: when a use of get_connection() is over, the connection it acquired, *)
(* if any, has been taken back once by the pool it came from, whether the   *)
(* body ended normally or raised; and a use that raised                     *)
(* ConnectionPoolError, on a manager that is not connected, acquired none.  *)
C38_ReleasedExactlyOnce ==
    \A u \in Users :
        borrow[u].pc \in {"done", "raised"}
        => /\ borrow[u].released = borrow[u].acquired
           /\ borrow[u].exc = "ConnectionPoolError" => borrow[u].acquired = 0

====
